---- MODULE Spec2Model ----
(***************************************************************************)
(* Model of gemini-image-mcp (src/unnamed/part_000, the current server):   *)
(* the parameter resolvers, the provider-response extractor, the publisher *)
(* saveImage and the generate_image / edit_image tool handlers.            *)
(*                                                                         *)
(* Strings are sequences of one-character strings (UTF-16 code units), so  *)
(* that case conversion, sanitising and path splitting are computed.       *)
(* Messages are sequences of string chunks, concatenated with \o.          *)
(* JavaScript values are tagged records [t |-> type, v |-> characters].    *)
(* An optional field is a sequence of length 0 (absent) or 1 (present).    *)
(***************************************************************************)
EXTENDS Integers, Sequences, FiniteSets, TLC

VARIABLES
    files,      \* the file system: a function from the paths of the existing files to their bytes
    dirs,       \* the set of existing directories
    inv,        \* the tool invocations in flight: slot -> invocation record
    call,       \* a call of one helper function: its name, argument and result
    server      \* the static content server: its bind attempts and whether it listens

vars == <<files, dirs, inv, call, server>>

----------------------------------------------------------------------------
(* The static content server (express) *)

\* PORT = parseInt(process.env.PORT || "3001", 10), the environment leaving it unset.
PORT == 3001

\* startExpressServer(port): app.listen(port) has been called and neither the
\* listening event nor an error event has come yet.
startExpressServer(srv, port) ==
    [srv EXCEPT !.state = "binding", !.port = port, !.attempts = Append(@, port)]

\* The server after a start-up without bind conflict: listening on PORT.
ServerListening ==
    [state |-> "listening", port |-> PORT, attempts |-> <<PORT>>, inUse |-> {}]

----------------------------------------------------------------------------
(* Optional values and JavaScript values *)

None == <<>>
Some(x) == <<x>>
IsSome(o) == Len(o) = 1
Get(o) == o[1]

Undef == [t |-> "undefined", v |-> <<>>]
Str(s) == [t |-> "string", v |-> s]
Num(digits) == [t |-> "number", v |-> digits]
Fn(name) == [t |-> "function", v |-> name]
Obj(name) == [t |-> "object", v |-> name]

\* JavaScript truthiness of a value: undefined, "" and 0 are falsy.
Truthy(x) ==
    CASE x.t = "undefined" -> FALSE
      [] x.t = "string" -> x.v # <<>>
      [] x.t = "number" -> x.v # <<"0">>
      [] OTHER -> TRUE

IsString(x) == x.t = "string"

----------------------------------------------------------------------------
(* Characters *)

UpperAlpha ==
    <<"A","B","C","D","E","F","G","H","I","J","K","L","M",
      "N","O","P","Q","R","S","T","U","V","W","X","Y","Z">>
LowerAlpha ==
    <<"a","b","c","d","e","f","g","h","i","j","k","l","m",
      "n","o","p","q","r","s","t","u","v","w","x","y","z">>
Digits == <<"0","1","2","3","4","5","6","7","8","9">>

Range(s) == {s[i] : i \in 1..Len(s)}
IndexOf(s, c) == CHOOSE i \in 1..Len(s) : s[i] = c

LowerChar(c) == IF c \in Range(UpperAlpha) THEN LowerAlpha[IndexOf(UpperAlpha, c)] ELSE c
UpperChar(c) == IF c \in Range(LowerAlpha) THEN UpperAlpha[IndexOf(LowerAlpha, c)] ELSE c

toLowerCase(s) == [i \in 1..Len(s) |-> LowerChar(s[i])]
toUpperCase(s) == [i \in 1..Len(s) |-> UpperChar(s[i])]

----------------------------------------------------------------------------
(* Parameter resolver *)

\* The own properties of the object literal ASPECT_PRESETS.
ASPECT_PRESETS ==
    << <<<<"h","e","r","o">>, <<"1","6",":","9">>>>,
       <<<<"s","q","u","a","r","e">>, <<"1",":","1">>>>,
       <<<<"p","o","r","t","r","a","i","t">>, <<"3",":","4">>>>,
       <<<<"l","a","n","d","s","c","a","p","e">>, <<"4",":","3">>>>,
       <<<<"b","a","n","n","e","r">>, <<"2","1",":","9">>>>,
       <<<<"m","o","b","i","l","e">>, <<"9",":","1","6">>>> >>

PresetKeys == {ASPECT_PRESETS[i][1] : i \in 1..Len(ASPECT_PRESETS)}

VALID_ASPECT_RATIOS ==
    << <<"1",":","1">>, <<"2",":","3">>, <<"3",":","2">>, <<"3",":","4">>,
       <<"4",":","3">>, <<"4",":","5">>, <<"5",":","4">>, <<"9",":","1","6">>,
       <<"1","6",":","9">>, <<"2","1",":","9">> >>

VALID_RESOLUTIONS == << <<"1","K">>, <<"2","K">>, <<"4","K">> >>

\* ASPECT_PRESETS is a plain object: a property read that finds no own
\* property continues on Object.prototype. These are the members of
\* Object.prototype whose names are all lower case (the key is lower-cased).
ObjectPrototype ==
    << <<<<"c","o","n","s","t","r","u","c","t","o","r">>, Fn(<<"Object">>)>>,
       <<<<"_","_","p","r","o","t","o","_","_">>, Obj(<<"Object.prototype">>)>> >>

\* ASPECT_PRESETS[key]: own property, else inherited property, else undefined.
PresetLookup(key) ==
    IF \E i \in 1..Len(ASPECT_PRESETS) : ASPECT_PRESETS[i][1] = key
    THEN Str(ASPECT_PRESETS[CHOOSE i \in 1..Len(ASPECT_PRESETS) : ASPECT_PRESETS[i][1] = key][2])
    ELSE IF \E i \in 1..Len(ObjectPrototype) : ObjectPrototype[i][1] = key
    THEN ObjectPrototype[CHOOSE i \in 1..Len(ObjectPrototype) : ObjectPrototype[i][1] = key][2]
    ELSE Undef

\* A resolver that looks the preset up without lower-casing the input.
resolveAspectRatioCaseSensitive(input) ==
    IF ~Truthy(input) THEN Str(<<"1",":","1">>)
    ELSE LET preset == PresetLookup(input.v)
         IN  IF Truthy(preset) THEN preset
             ELSE IF input.v \in Range(VALID_ASPECT_RATIOS) THEN input
             ELSE Str(<<"1",":","1">>)

\* resolveAspectRatio(input?: string): input is absent or a string.
resolveAspectRatio(input) ==
    IF ~Truthy(input) THEN Str(<<"1",":","1">>)
    ELSE LET preset == PresetLookup(toLowerCase(input.v))
         IN  IF Truthy(preset) THEN preset
             ELSE IF input.v \in Range(VALID_ASPECT_RATIOS) THEN input
             ELSE Str(<<"1",":","1">>)

\* A resolver that returns the input as written when its upper case is valid.
resolveResolutionAsWritten(input) ==
    IF ~Truthy(input) THEN Str(<<"1","K">>)
    ELSE LET upper == toUpperCase(input.v)
         IN  IF upper \in Range(VALID_RESOLUTIONS) THEN input
             ELSE Str(<<"1","K">>)

\* resolveResolution(input?: string)
resolveResolution(input) ==
    IF ~Truthy(input) THEN Str(<<"1","K">>)
    ELSE LET upper == toUpperCase(input.v)
         IN  IF upper \in Range(VALID_RESOLUTIONS) THEN Str(upper)
             ELSE Str(<<"1","K">>)

----------------------------------------------------------------------------
(* Paths (node:path, POSIX flavour) *)

RECURSIVE StripTrailingSlashes(_)
StripTrailingSlashes(p) ==
    IF Len(p) > 0 /\ p[Len(p)] = "/" THEN StripTrailingSlashes(SubSeq(p, 1, Len(p) - 1)) ELSE p

HasChar(s, c) == \E i \in 1..Len(s) : s[i] = c
LastIndexOf(s, c) == CHOOSE i \in 1..Len(s) : s[i] = c /\ \A j \in (i+1)..Len(s) : s[j] # c

\* The last portion of a path, trailing separators ignored.
LastPortion(p) ==
    LET q == StripTrailingSlashes(p)
    IN  IF HasChar(q, "/") THEN SubSeq(q, LastIndexOf(q, "/") + 1, Len(q)) ELSE q

\* path.extname(p): from the last "." of the last portion to its end; empty
\* when there is no ".", when the only "." is its first character, or for "..".
extname(p) ==
    LET base == LastPortion(p)
    IN  IF ~HasChar(base, ".") THEN <<>>
        ELSE LET k == LastIndexOf(base, ".")
             IN  IF k = 1 \/ base = <<".", ".">> THEN <<>>
                 ELSE SubSeq(base, k, Len(base))

EndsWith(s, suffix) ==
    /\ Len(suffix) <= Len(s)
    /\ SubSeq(s, Len(s) - Len(suffix) + 1, Len(s)) = suffix

\* path.basename(p, ext): the last portion, without ext when it ends in ext
\* and is longer than ext.
basename(p, ext) ==
    LET base == LastPortion(p)
    IN  IF Len(ext) > 0 /\ Len(ext) < Len(base) /\ EndsWith(base, ext)
        THEN SubSeq(base, 1, Len(base) - Len(ext))
        ELSE base

\* path.dirname(p)
dirname(p) ==
    LET q == StripTrailingSlashes(p)
    IN  IF ~HasChar(q, "/") THEN (IF Len(p) > 0 /\ p[1] = "/" THEN <<"/">> ELSE <<".">>)
        ELSE LET d == StripTrailingSlashes(SubSeq(q, 1, LastIndexOf(q, "/") - 1))
             IN  IF d = <<>> THEN <<"/">> ELSE d

RECURSIVE Segments(_)
\* The portions of a path between its separators, empty ones included.
Segments(p) ==
    IF ~HasChar(p, "/") THEN <<p>>
    ELSE LET k == CHOOSE i \in 1..Len(p) : p[i] = "/" /\ \A j \in 1..(i-1) : p[j] # "/"
         IN  <<SubSeq(p, 1, k - 1)>> \o Segments(SubSeq(p, k + 1, Len(p)))

RECURSIVE ResolveSegments(_, _, _)
\* normalizeString: empty and "." segments are dropped, ".." removes the segment
\* before it; at the top ".." is dropped in an absolute path and kept in a
\* relative one.
ResolveSegments(segs, acc, allowAboveRoot) ==
    IF segs = <<>> THEN acc
    ELSE LET seg == Head(segs)
             rest == Tail(segs)
         IN  IF seg \in {<<>>, <<".">>} THEN ResolveSegments(rest, acc, allowAboveRoot)
             ELSE IF seg = <<".", ".">>
             THEN IF Len(acc) > 0 /\ acc[Len(acc)] # <<".", ".">>
                  THEN ResolveSegments(rest, SubSeq(acc, 1, Len(acc) - 1), allowAboveRoot)
                  ELSE IF allowAboveRoot
                  THEN ResolveSegments(rest, Append(acc, seg), allowAboveRoot)
                  ELSE ResolveSegments(rest, acc, allowAboveRoot)
             ELSE ResolveSegments(rest, Append(acc, seg), allowAboveRoot)

RECURSIVE JoinSegments(_)
JoinSegments(segs) ==
    IF segs = <<>> THEN <<>>
    ELSE IF Len(segs) = 1 THEN segs[1]
    ELSE segs[1] \o <<"/">> \o JoinSegments(Tail(segs))

\* path.normalize(p)
normalize(p) ==
    IF p = <<>> THEN <<".">>
    ELSE LET isAbsolute == p[1] = "/"
             trailingSeparator == p[Len(p)] = "/"
             body == JoinSegments(ResolveSegments(Segments(p), <<>>, ~isAbsolute))
             dotted == IF body = <<>> /\ ~isAbsolute THEN <<".">> ELSE body
             slashed == IF Len(dotted) > 0 /\ trailingSeparator THEN dotted \o <<"/">> ELSE dotted
         IN  IF isAbsolute THEN <<"/">> \o slashed ELSE slashed

\* path.join(dir, name): the non-empty arguments joined by "/" and normalised.
join(dir, name) ==
    IF dir = <<>> /\ name = <<>> THEN <<".">>
    ELSE IF name = <<>> THEN normalize(dir)
    ELSE IF dir = <<>> THEN normalize(name)
    ELSE normalize(dir \o <<"/">> \o name)

\* The characters the regular expression [^a-zA-Z0-9_-] does not match.
SafeChars == Range(LowerAlpha) \cup Range(UpperAlpha) \cup Range(Digits) \cup {"_", "-"}

\* A sanitiser that also keeps the dot.
SanitizeKeepingDots(s) == [i \in 1..Len(s) |-> IF s[i] \in SafeChars \cup {"."} THEN s[i] ELSE "_"]

\* filename.replace(/[^a-zA-Z0-9_-]/g, "_")
Sanitize(s) == [i \in 1..Len(s) |-> IF s[i] \in SafeChars THEN s[i] ELSE "_"]

\* The id saveImage derives from the destination path.
SafeId(outputPath) == Sanitize(basename(outputPath, extname(outputPath)))

----------------------------------------------------------------------------
(* Base64 (Buffer.from(s, "base64") and buffer.toString("base64")) *)

B64Alphabet == UpperAlpha \o LowerAlpha \o Digits \o <<"+", "/">>

\* The 6-bit value of a character; "-" and "_" are read as "+" and "/".
B64Value(c) ==
    CASE c = "-" -> 62
      [] c = "_" -> 63
      [] OTHER -> IndexOf(B64Alphabet, c) - 1

IsB64Char(c) == c \in Range(B64Alphabet) \cup {"-", "_"}

\* The characters before the first "=", the ones outside the alphabet skipped.
RECURSIVE B64Significant(_)
B64Significant(s) ==
    IF s = <<>> \/ s[1] = "=" THEN <<>>
    ELSE IF IsB64Char(s[1]) THEN <<B64Value(s[1])>> \o B64Significant(Tail(s))
    ELSE B64Significant(Tail(s))

RECURSIVE B64Pack(_)
B64Pack(q) ==
    IF Len(q) < 2 THEN <<>>
    ELSE IF Len(q) = 2 THEN << (q[1] * 4) + (q[2] \div 16) >>
    ELSE IF Len(q) = 3
    THEN << (q[1] * 4) + (q[2] \div 16), ((q[2] % 16) * 16) + (q[3] \div 4) >>
    ELSE << (q[1] * 4) + (q[2] \div 16), ((q[2] % 16) * 16) + (q[3] \div 4),
            ((q[3] % 4) * 64) + q[4] >>
         \o B64Pack(SubSeq(q, 5, Len(q)))

\* Buffer.from(s, "base64"): the bytes, each in 0..255.
B64Decode(s) == B64Pack(B64Significant(s))

RECURSIVE B64Encode(_)
\* buffer.toString("base64"), padded with "=".
B64Encode(b) ==
    IF b = <<>> THEN <<>>
    ELSE IF Len(b) = 1
    THEN << B64Alphabet[(b[1] \div 4) + 1], B64Alphabet[((b[1] % 4) * 16) + 1], "=", "=" >>
    ELSE IF Len(b) = 2
    THEN << B64Alphabet[(b[1] \div 4) + 1],
            B64Alphabet[((b[1] % 4) * 16) + (b[2] \div 16) + 1],
            B64Alphabet[((b[2] % 16) * 4) + 1], "=" >>
    ELSE << B64Alphabet[(b[1] \div 4) + 1],
            B64Alphabet[((b[1] % 4) * 16) + (b[2] \div 16) + 1],
            B64Alphabet[((b[2] % 16) * 4) + (b[3] \div 64) + 1],
            B64Alphabet[(b[3] % 64) + 1] >>
         \o B64Encode(SubSeq(b, 4, Len(b)))

----------------------------------------------------------------------------
(* Inputs of the parameter resolver *)

\* Every way of writing a lower-case word in upper and lower case letters.
RECURSIVE Casings(_)
Casings(w) ==
    IF w = <<>> THEN {<<>>}
    ELSE {<<c>> \o rest : c \in {w[1], UpperChar(w[1])}, rest \in Casings(Tail(w))}

\* Strings that are neither a preset key nor a valid ratio.
OtherAspectStrings ==
    { <<>>,
      <<"b","o","g","u","s">>,
      <<"1","6",":","1","0">>,
      <<"1","6","x","9">>,
      <<"1",":","1"," ">>,
      <<" ","h","e","r","o">>,
      <<"h","e","r","o","s">>,
      <<"w","i","d","e">>,
      <<"1","6",":","9",":","1">>,
      <<"9",":","1","6","0">>,
      <<"t","o","s","t","r","i","n","g">>,
      <<"c","o","n","s","t","r","u","c","t","o","r">>,
      <<"C","o","n","s","t","r","u","c","t","o","r">>,
      <<"_","_","p","r","o","t","o","_","_">> }

AspectInputs ==
    {Undef}
    \cup {Str(s) : s \in UNION {Casings(k) : k \in PresetKeys}}
    \cup {Str(s) : s \in Range(VALID_ASPECT_RATIOS)}
    \cup {Str(s) : s \in OtherAspectStrings}

ResolutionWords == { <<"1","k">>, <<"2","k">>, <<"4","k">> }

OtherResolutionStrings ==
    { <<>>,
      <<"8","K">>, <<"3","k">>, <<"1">>, <<"k">>, <<"K","1">>,
      <<"1","k","k">>, <<" ","1","k">>, <<"4","K"," ">>, <<"h","d">>,
      <<"1","0","8","0","p">>, <<"1","0","2","4">>, <<"4","k","b">> }

ResolutionInputs ==
    {Undef}
    \cup {Str(s) : s \in UNION {Casings(w) : w \in ResolutionWords}}
    \cup {Str(s) : s \in OtherResolutionStrings}

NoCall == [fn |-> "none", arg |-> Undef, ret |-> None]

----------------------------------------------------------------------------
(* SpecResolve: calls of resolveAspectRatio and resolveResolution *)

InitResolve ==
    /\ server = ServerListening
    /\ files = <<>>
    /\ dirs = {}
    /\ inv = <<>>
    /\ \/ \E a \in AspectInputs : call = [fn |-> "resolveAspectRatio", arg |-> a, ret |-> None]
       \/ \E r \in ResolutionInputs : call = [fn |-> "resolveResolution", arg |-> r, ret |-> None]

CallResolveAspectRatio ==
    /\ call.fn = "resolveAspectRatio"
    /\ call.ret = None
    /\ call' = [call EXCEPT !.ret = Some(resolveAspectRatio(call.arg))]
    /\ UNCHANGED <<files, dirs, inv, server>>

CallResolveResolution ==
    /\ call.fn = "resolveResolution"
    /\ call.ret = None
    /\ call' = [call EXCEPT !.ret = Some(resolveResolution(call.arg))]
    /\ UNCHANGED <<files, dirs, inv, server>>

NextResolve == CallResolveAspectRatio \/ CallResolveResolution

SpecResolve == InitResolve /\ [][NextResolve]_vars

----------------------------------------------------------------------------
(* Claims about the parameter resolver, checked under SpecResolve *)

\* The preset table as the specification documents it.
DocumentedPresets ==
    { <<<<"h","e","r","o">>, <<"1","6",":","9">>>>,
      <<<<"s","q","u","a","r","e">>, <<"1",":","1">>>>,
      <<<<"p","o","r","t","r","a","i","t">>, <<"3",":","4">>>>,
      <<<<"l","a","n","d","s","c","a","p","e">>, <<"4",":","3">>>>,
      <<<<"b","a","n","n","e","r">>, <<"2","1",":","9">>>>,
      <<<<"m","o","b","i","l","e">>, <<"9",":","1","6">>>> }

\* The ten explicit ratio strings of the specification.
TenRatios ==
    { <<"1",":","1">>, <<"2",":","3">>, <<"3",":","2">>, <<"3",":","4">>, <<"4",":","3">>,
      <<"4",":","5">>, <<"5",":","4">>, <<"9",":","1","6">>, <<"1","6",":","9">>,
      <<"2","1",":","9">> }

AspectReturned == call.fn = "resolveAspectRatio" /\ IsSome(call.ret)
ResolutionReturned == call.fn = "resolveResolution" /\ IsSome(call.ret)

\* C4: a preset key in any letter casing resolves to its documented ratio, each of
\* the ten valid ratio strings resolves to itself, and absent input resolves to 1:1.
C4_PresetsRatiosAndDefault ==
    AspectReturned =>
        LET a == call.arg
            r == Get(call.ret)
        IN  /\ \A d \in DocumentedPresets :
                 (a.t = "string" /\ a.v \in Casings(d[1])) => r = Str(d[2])
            /\ (a.t = "string" /\ a.v \in TenRatios) => r = a
            /\ a.t = "undefined" => r = Str(<<"1",":","1">>)

\* C4 witness: "MoBiLe" has been resolved to 9:16.
C4_Witness ==
    /\ AspectReturned
    /\ call.arg = Str(<<"M","o","B","i","L","e">>)
    /\ Get(call.ret) = Str(<<"9",":","1","6">>)

ResolutionNames == { <<"1","K">>, <<"2","K">>, <<"4","K">> }

\* C6: 1k, 2k and 4k in either letter case resolve to 1K, 2K and 4K, every other
\* input (absent included) resolves to 1K, and the result is always one of the three.
C6_ResolutionResolved ==
    ResolutionReturned =>
        LET a == call.arg
            r == Get(call.ret)
            named == a.t = "string" /\ \E n \in ResolutionNames : a.v \in {n, <<n[1], "k">>}
        IN  /\ r.t = "string" /\ r.v \in ResolutionNames
            /\ \A n \in ResolutionNames :
                 (a.t = "string" /\ a.v \in {n, <<n[1], "k">>}) => r = Str(n)
            /\ ~named => r = Str(<<"1","K">>)

\* C6 witness: "4k" has been resolved to 4K.
C6_Witness ==
    /\ ResolutionReturned
    /\ call.arg = Str(<<"4","k">>)
    /\ Get(call.ret) = Str(<<"4","K">>)

----------------------------------------------------------------------------
(* Provider response extractor *)

\* A response is [candidates |-> optional sequence of candidates], a candidate
\* [content |-> optional [parts |-> optional sequence of parts]], and a part
\* [inlineData |-> optional [data |-> optional string, mimeType |-> optional string]].

\* A test that accepts inline data of length zero.
HasInlineData(part) == IsSome(part.inlineData) /\ IsSome(Get(part.inlineData).data)

\* part.inlineData && part.inlineData.data
HasInlineImage(part) ==
    /\ IsSome(part.inlineData)
    /\ IsSome(Get(part.inlineData).data)
    /\ Get(Get(part.inlineData).data) # <<>>

\* part.inlineData.mimeType || "image/png"
MimeTypeOrDefault(inlineData) ==
    IF IsSome(inlineData.mimeType) /\ Get(inlineData.mimeType) # <<>>
    THEN Get(inlineData.mimeType)
    ELSE <<"image/png">>

\* The loop over the parts: the first part that carries data, else absent.
FirstImageOf(parts) ==
    IF \E i \in 1..Len(parts) : HasInlineImage(parts[i])
    THEN LET i == CHOOSE k \in 1..Len(parts) :
                     /\ HasInlineImage(parts[k])
                     /\ \A j \in 1..(k-1) : ~HasInlineImage(parts[j])
             d == Get(parts[i].inlineData)
         IN  Some([data |-> Get(d.data), mimeType |-> MimeTypeOrDefault(d)])
    ELSE None

\* An extractor that goes on to the later candidates when one has no image.
RECURSIVE FirstImageOfCandidates(_)
FirstImageOfCandidates(cs) ==
    IF cs = <<>> THEN None
    ELSE LET here == IF IsSome(cs[1].content) /\ IsSome(Get(cs[1].content).parts)
                     THEN FirstImageOf(Get(Get(cs[1].content).parts))
                     ELSE None
         IN  IF IsSome(here) THEN here ELSE FirstImageOfCandidates(Tail(cs))

extractImageFromAnyCandidate(response) ==
    IF IsSome(response.candidates)
    THEN FirstImageOfCandidates(Get(response.candidates))
    ELSE None

\* extractImageFromResponse(response): an optional [data, mimeType].
extractImageFromResponse(response) ==
    IF IsSome(response.candidates) /\ Len(Get(response.candidates)) > 0
    THEN LET candidate == Get(response.candidates)[1]
         IN  IF IsSome(candidate.content) /\ IsSome(Get(candidate.content).parts)
             THEN FirstImageOf(Get(Get(candidate.content).parts))
             ELSE None
    ELSE None

----------------------------------------------------------------------------
(* Provider responses *)

\* Base64 payloads: AQID is the bytes 1 2 3, /w== the byte 255, AQI the bytes 1 2.
DataA == <<"A","Q","I","D">>
DataB == <<"/","w","=","=">>
DataC == <<"A","Q","I">>

TextPart == [inlineData |-> None]
PartValues ==
    { TextPart,
      [inlineData |-> Some([data |-> None, mimeType |-> Some(<<"image/png">>)])],
      [inlineData |-> Some([data |-> Some(<<>>), mimeType |-> Some(<<"image/jpeg">>)])],
      [inlineData |-> Some([data |-> Some(DataA), mimeType |-> None])],
      [inlineData |-> Some([data |-> Some(DataB), mimeType |-> Some(<<"image/jpeg">>)])],
      [inlineData |-> Some([data |-> Some(DataC), mimeType |-> Some(<<>>)])] }

MaxParts == 2
MaxCandidates == 2

SeqsUpTo(S, n) == UNION {[1..k -> S] : k \in 0..n}

CandidateOf(parts) == [content |-> Some([parts |-> Some(parts)])]

FirstCandidates ==
    { [content |-> None], [content |-> Some([parts |-> None])] }
    \cup {CandidateOf(ps) : ps \in SeqsUpTo(PartValues, MaxParts)}

\* The candidates that follow the first one: without an image, or with one.
LaterCandidates ==
    { [content |-> None],
      CandidateOf(<<[inlineData |-> Some([data |-> Some(DataB),
                                          mimeType |-> Some(<<"image/webp">>)])]>>) }

Responses ==
    { [candidates |-> None], [candidates |-> Some(<<>>)] }
    \cup { [candidates |-> Some(<<c>> \o rest)] :
             c \in FirstCandidates, rest \in SeqsUpTo(LaterCandidates, MaxCandidates - 1) }

----------------------------------------------------------------------------
(* SpecExtract: calls of extractImageFromResponse *)

InitExtract ==
    /\ server = ServerListening
    /\ files = <<>>
    /\ dirs = {}
    /\ inv = <<>>
    /\ \E r \in Responses : call = [fn |-> "extractImageFromResponse", arg |-> r, ret |-> None]

CallExtractImageFromResponse ==
    /\ call.fn = "extractImageFromResponse"
    /\ call.ret = None
    /\ call' = [call EXCEPT !.ret = Some(extractImageFromResponse(call.arg))]
    /\ UNCHANGED <<files, dirs, inv, server>>

NextExtract == CallExtractImageFromResponse

SpecExtract == InitExtract /\ [][NextExtract]_vars

\* The parts of the first candidate, none when it has no content or no parts.
PartsOfFirstCandidate(response) ==
    IF /\ IsSome(response.candidates)
       /\ Len(Get(response.candidates)) > 0
       /\ IsSome(Get(response.candidates)[1].content)
       /\ IsSome(Get(Get(response.candidates)[1].content).parts)
    THEN Get(Get(Get(response.candidates)[1].content).parts)
    ELSE <<>>

CarriesData(part) ==
    IsSome(part.inlineData) /\ Get(part.inlineData).data \notin {None, Some(<<>>)}

\* C7: extraction returns the first part of the first candidate that carries
\* non-empty inline data, with its declared (non-empty) MIME type or image/png;
\* when the first candidate has no such part the result is absent, whatever the
\* later candidates hold.
C7_FirstPartOfFirstCandidate ==
    (call.fn = "extractImageFromResponse" /\ IsSome(call.ret)) =>
        LET parts == PartsOfFirstCandidate(call.arg)
            hits == {i \in 1..Len(parts) : CarriesData(parts[i])}
            got == Get(call.ret)
        IN  IF hits = {} THEN got = None
            ELSE LET first == CHOOSE i \in hits : \A j \in hits : i <= j
                     d == Get(parts[first].inlineData)
                 IN  /\ IsSome(got)
                     /\ Get(got).data = Get(d.data)
                     /\ Get(got).mimeType =
                            IF d.mimeType \in {None, Some(<<>>)} THEN <<"image/png">>
                            ELSE Get(d.mimeType)

\* C7 witness: the first candidate holds only a text part, the second holds an
\* image, and extraction has returned absent.
C7_Witness ==
    /\ call.fn = "extractImageFromResponse"
    /\ call.ret = Some(None)
    /\ call.arg =
         [candidates |-> Some(<<CandidateOf(<<TextPart>>),
                                CandidateOf(<<[inlineData |->
                                    Some([data |-> Some(DataB),
                                          mimeType |-> Some(<<"image/webp">>)])]>>)>>)]

----------------------------------------------------------------------------
(* File system and the publisher saveImage *)

\* IMAGES_DIR = path.join(PROJECT_ROOT, "images"), with the project at /p.
IMAGES_DIR == <<"/","p","/","i","m","a","g","e","s">>

PngExt == <<".","p","n","g">>

RECURSIVE DirChain(_)
\* A directory and the directories above it.
DirChain(d) == IF d \in {<<"/">>, <<".">>} THEN {d} ELSE {d} \cup DirChain(dirname(d))

\* The directories that exist when the process has started: the root, the
\* working directory and IMAGES_DIR, which the start-up code creates.
InitialDirs == {<<"/">>, <<".">>} \cup DirChain(IMAGES_DIR)

Err(message) == [isError |-> TRUE, message |-> message]
\* A thrown value that is not an Error object.
NonError == [isError |-> FALSE, message |-> <<>>]

\* The faults the environment can inject into one system call of a publish.
IoFaults == {"none", "mkdir", "write1", "write2"}

\* fs.mkdirSync(dir, {recursive: true}) fails when a file is in the way.
MkdirBlocked(fs, dir) == \E a \in DirChain(dir) : a \in DOMAIN fs

\* fs.writeFileSync(path, ...) fails when the path names a directory or its
\* directory does not exist.
WriteBlocked(fs, ds, path) ==
    \/ path = <<>>
    \/ path[Len(path)] = "/"
    \/ path \in ds
    \/ dirname(path) \notin ds

WriteFile(fs, path, bytes) ==
    [q \in (DOMAIN fs) \cup {path} |-> IF q = path THEN bytes ELSE fs[q]]

OpenError(code, path) == Err(<<code, ", open '">> \o path \o <<"'">>)

MirrorPath(safeId) == join(IMAGES_DIR, safeId \o PngExt)

\* A publisher that names the mirror with the extension of the destination.
saveImageKeepingExtension(fs, ds, imageData, outputPath, fault) ==
    LET safeId == SafeId(outputPath)
        buffer == B64Decode(imageData)
        outputDir == dirname(outputPath)
        localPath == join(IMAGES_DIR, safeId \o extname(outputPath))
        needDir == outputDir \notin ds
        ds1 == IF needDir THEN ds \cup DirChain(outputDir) ELSE ds
        fs1 == WriteFile(fs, outputPath, buffer)
        fs2 == WriteFile(fs1, localPath, buffer)
    IN  IF \/ needDir /\ (fault = "mkdir" \/ MkdirBlocked(fs, outputDir))
           \/ fault \in {"write1", "write2"}
           \/ WriteBlocked(fs, ds1, outputPath)
           \/ WriteBlocked(fs1, ds1, localPath)
        THEN [files |-> fs, dirs |-> ds, threw |-> TRUE,
              error |-> OpenError("EACCES: permission denied", outputPath),
              value |-> None]
        ELSE [files |-> fs2, dirs |-> ds1, threw |-> FALSE,
              error |-> NonError,
              value |-> Some([id |-> safeId,
                              path |-> outputPath,
                              url |-> [host |-> "localhost", port |-> PORT,
                                       path |-> <<"/images/">> \o safeId \o PngExt]])]

\* A publisher that never overwrites a file that is already there.
saveImageFirstWriterWins(fs, ds, imageData, outputPath, fault) ==
    LET safeId == SafeId(outputPath)
        buffer == B64Decode(imageData)
        outputDir == dirname(outputPath)
        localPath == MirrorPath(safeId)
        needDir == outputDir \notin ds
        ds1 == IF needDir THEN ds \cup DirChain(outputDir) ELSE ds
        fs1 == IF outputPath \in DOMAIN fs THEN fs ELSE WriteFile(fs, outputPath, buffer)
        fs2 == IF localPath \in DOMAIN fs1 THEN fs1 ELSE WriteFile(fs1, localPath, buffer)
    IN  IF needDir /\ (fault = "mkdir" \/ MkdirBlocked(fs, outputDir))
        THEN [files |-> fs, dirs |-> ds, threw |-> TRUE,
              error |-> Err(<<"EACCES: permission denied", ", mkdir '">> \o outputDir \o <<"'">>),
              value |-> None]
        ELSE IF fault = "write1" \/ WriteBlocked(fs, ds1, outputPath)
        THEN [files |-> fs, dirs |-> ds1, threw |-> TRUE,
              error |-> OpenError("EACCES: permission denied", outputPath),
              value |-> None]
        ELSE IF fault = "write2" \/ WriteBlocked(fs1, ds1, localPath)
        THEN [files |-> fs1, dirs |-> ds1, threw |-> TRUE,
              error |-> OpenError("ENOENT: no such file or directory", localPath),
              value |-> None]
        ELSE [files |-> fs2, dirs |-> ds1, threw |-> FALSE,
              error |-> NonError,
              value |-> Some([id |-> safeId,
                              path |-> outputPath,
                              url |-> [host |-> "localhost", port |-> PORT,
                                       path |-> <<"/images/">> \o safeId \o PngExt]])]

\* A publisher that removes the primary file again when the mirror write fails.
saveImageWithRollback(fs, ds, imageData, outputPath, fault) ==
    LET safeId == SafeId(outputPath)
        buffer == B64Decode(imageData)
        outputDir == dirname(outputPath)
        localPath == MirrorPath(safeId)
        needDir == outputDir \notin ds
        ds1 == IF needDir THEN ds \cup DirChain(outputDir) ELSE ds
        fs1 == WriteFile(fs, outputPath, buffer)
        fs2 == WriteFile(fs1, localPath, buffer)
    IN  IF needDir /\ (fault = "mkdir" \/ MkdirBlocked(fs, outputDir))
        THEN [files |-> fs, dirs |-> ds, threw |-> TRUE,
              error |-> Err(<<"EACCES: permission denied", ", mkdir '">> \o outputDir \o <<"'">>),
              value |-> None]
        ELSE IF fault = "write1" \/ WriteBlocked(fs, ds1, outputPath)
        THEN [files |-> fs, dirs |-> ds1, threw |-> TRUE,
              error |-> OpenError("EACCES: permission denied", outputPath),
              value |-> None]
        ELSE IF fault = "write2" \/ WriteBlocked(fs1, ds1, localPath)
        THEN [files |-> fs, dirs |-> ds1, threw |-> TRUE,
              error |-> OpenError("ENOENT: no such file or directory", localPath),
              value |-> None]
        ELSE [files |-> fs2, dirs |-> ds1, threw |-> FALSE,
              error |-> NonError,
              value |-> Some([id |-> safeId,
                              path |-> outputPath,
                              url |-> [host |-> "localhost", port |-> PORT,
                                       path |-> <<"/images/">> \o safeId \o PngExt]])]

\* saveImage(imageData, outputPath) on the file system (fs, ds), the environment
\* injecting fault: the file system it leaves, and what it returns or throws.
saveImage(fs, ds, imageData, outputPath, fault) ==
    LET safeId == SafeId(outputPath)
        buffer == B64Decode(imageData)
        outputDir == dirname(outputPath)
        localPath == MirrorPath(safeId)
        needDir == outputDir \notin ds
        ds1 == IF needDir THEN ds \cup DirChain(outputDir) ELSE ds
        fs1 == WriteFile(fs, outputPath, buffer)
        fs2 == WriteFile(fs1, localPath, buffer)
    IN  IF needDir /\ (fault = "mkdir" \/ MkdirBlocked(fs, outputDir))
        THEN [files |-> fs, dirs |-> ds, threw |-> TRUE,
              error |-> Err(<<"EACCES: permission denied", ", mkdir '">> \o outputDir \o <<"'">>),
              value |-> None]
        ELSE IF fault = "write1" \/ WriteBlocked(fs, ds1, outputPath)
        THEN [files |-> fs, dirs |-> ds1, threw |-> TRUE,
              error |-> OpenError("EACCES: permission denied", outputPath),
              value |-> None]
        ELSE IF fault = "write2" \/ WriteBlocked(fs1, ds1, localPath)
        THEN [files |-> fs1, dirs |-> ds1, threw |-> TRUE,
              error |-> OpenError("ENOENT: no such file or directory", localPath),
              value |-> None]
        ELSE [files |-> fs2, dirs |-> ds1, threw |-> FALSE,
              error |-> NonError,
              value |-> Some([id |-> safeId,
                              path |-> outputPath,
                              url |-> [host |-> "localhost", port |-> PORT,
                                       path |-> <<"/images/">> \o safeId \o PngExt]])]

----------------------------------------------------------------------------
(* SpecPublish: one call of saveImage *)

PublishPaths ==
    { <<"/","a","/","b","/","m","y"," ","f","i","l","e","!",".","p","n","g">>,
      <<"/","a","/","x",".","j","p","g">>,
      <<"/","c","/","x",".","p","n","g">>,
      <<"/","a","/","x">>,
      <<"/","a","/",".","p","n","g">>,
      <<"/","a","/","b",".","c",".","d",".","w","e","b","p">>,
      <<"/","a","/","U+00E9","t","U+00E9",".","p","n","g">>,
      <<"r","e","l",".","p","n","g">>,
      <<"/","a","/","x",".","p","n","g","/">>,
      <<"/","a","/",".",".">>,
      <<"/","a","/","a","-","b","_","c",".","P","N","G">>,
      <<"/","a","/","x",".">>,
      <<"/","p","/","i","m","a","g","e","s","/","x",".","p","n","g">>,
      <<"/","p","/","i","m","a","g","e","s","/","y",".","j","p","g">>,
      <<"/","a","/","x"," ","y",".","t","a","r",".","g","z">>,
      <<"/","a","/","x",".","j","p","g","/","z",".","p","n","g">>,
      <<"/">> }

Payloads == {DataA, DataB, DataC}

OldBytes == <<9, 9>>

\* Files left by earlier publishes.
OldFiles ==
    [q \in { <<"/","a","/","x",".","j","p","g">>, <<"/","c","/","x",".","p","n","g">>,
             MirrorPath(<<"x">>) } |-> OldBytes]

InitPublish ==
    /\ server = ServerListening
    /\ files \in {<<>>, OldFiles}
    /\ dirs = InitialDirs \cup UNION {DirChain(dirname(q)) : q \in DOMAIN files}
    /\ inv = <<>>
    /\ \E d \in Payloads, o \in PublishPaths :
          call = [fn |-> "saveImage", arg |-> [imageData |-> d, outputPath |-> o], ret |-> None]

\* The serving directory is removed from outside, with the files in it.
RemoveImagesDir ==
    /\ IMAGES_DIR \in dirs
    /\ dirs' = dirs \ {IMAGES_DIR}
    /\ files' = [q \in {f \in DOMAIN files : dirname(f) # IMAGES_DIR} |-> files[q]]

PublishRemoveImagesDir ==
    /\ call.ret = None
    /\ RemoveImagesDir
    /\ UNCHANGED <<inv, call, server>>

CallSaveImage ==
    /\ call.fn = "saveImage"
    /\ call.ret = None
    /\ \E fault \in IoFaults :
          LET r == saveImage(files, dirs, call.arg.imageData, call.arg.outputPath, fault)
          IN  /\ files' = r.files
              /\ dirs' = r.dirs
              /\ call' = [call EXCEPT !.ret = Some([threw |-> r.threw, error |-> r.error,
                                                    value |-> r.value])]
    /\ UNCHANGED <<inv, server>>

NextPublish == PublishRemoveImagesDir \/ CallSaveImage

SpecPublish == InitPublish /\ [][NextPublish]_vars

----------------------------------------------------------------------------
(* Claims about the publisher, checked under SpecPublish *)

\* The bytes the payloads stand for.
DecodedPayload(d) ==
    CASE d = DataA -> <<1, 2, 3>>
      [] d = DataB -> <<255>>
      [] d = DataC -> <<1, 2>>

PublishReturned == call.fn = "saveImage" /\ IsSome(call.ret) /\ ~Get(call.ret).threw

\* C2: when saveImage has returned for destination d with id i, the file at d and
\* the file at {servingDir}/{i}.png both hold the decoded payload, whatever the
\* extension of d.
C2_PrimaryAndMirrorIdentical ==
    PublishReturned =>
        LET d == call.arg.outputPath
            i == Get(Get(call.ret).value).id
            mirror == IMAGES_DIR \o <<"/">> \o i \o <<".","p","n","g">>
            bytes == DecodedPayload(call.arg.imageData)
        IN  /\ d \in DOMAIN files
            /\ mirror \in DOMAIN files
            /\ files[d] = bytes
            /\ files[mirror] = bytes

\* C2 witness: /a/x.jpg has been published over an older file, and its mirror
\* x.png holds the same new bytes.
C2_Witness ==
    /\ PublishReturned
    /\ call.arg.outputPath = <<"/","a","/","x",".","j","p","g">>
    /\ call.arg.imageData = DataB
    /\ files[<<"/","a","/","x",".","j","p","g">>] = <<255>>
    /\ files[<<"/","p","/","i","m","a","g","e","s","/","x",".","p","n","g">>] = <<255>>

IdChars == Range(LowerAlpha) \cup Range(UpperAlpha) \cup Range(Digits) \cup {"_", "-"}

\* C3: the published id is the destination's filename without its extension,
\* each character outside [A-Za-z0-9_-] replaced by one "_"; /a/b/my file!.png
\* gives my_file_.
C3_IdIsSanitizedStem ==
    PublishReturned =>
        LET d == call.arg.outputPath
            i == Get(Get(call.ret).value).id
            stem == basename(d, extname(d))
        IN  /\ Len(i) = Len(stem)
            /\ \A k \in 1..Len(i) :
                 /\ i[k] \in IdChars
                 /\ i[k] = (IF stem[k] \in IdChars THEN stem[k] ELSE "_")
            /\ d = <<"/","a","/","b","/","m","y"," ","f","i","l","e","!",".","p","n","g">>
                 => i = <<"m","y","_","f","i","l","e","_">>

\* C3 witness: /a/b/my file!.png has been published with id my_file_.
C3_Witness ==
    /\ PublishReturned
    /\ call.arg.outputPath = <<"/","a","/","b","/","m","y"," ","f","i","l","e","!",".","p","n","g">>
    /\ Get(Get(call.ret).value).id = <<"m","y","_","f","i","l","e","_">>

----------------------------------------------------------------------------
(* Image codec helper *)

LowerExtOf(imagePath) == toLowerCase(extname(imagePath))

\* The MIME type readImageAsBase64 infers from the extension.
MimeTypeOfPath(imagePath) ==
    LET ext == LowerExtOf(imagePath)
    IN  IF ext \in {<<".","j","p","g">>, <<".","j","p","e","g">>} THEN <<"image/jpeg">>
        ELSE IF ext = <<".","p","n","g">> THEN <<"image/png">>
        ELSE IF ext = <<".","g","i","f">> THEN <<"image/gif">>
        ELSE IF ext = <<".","w","e","b","p">> THEN <<"image/webp">>
        ELSE <<"image/png">>

\* readImageAsBase64(imagePath) on the file system (fs, ds): what it returns or throws.
readImageAsBase64(fs, ds, imagePath) ==
    IF imagePath \notin DOMAIN fs /\ imagePath \notin ds
    THEN [threw |-> TRUE, error |-> Err(<<"Image not found: ">> \o imagePath), value |-> None]
    ELSE IF imagePath \in ds
    THEN [threw |-> TRUE, error |-> Err(<<"EISDIR: illegal operation on a directory, read">>),
          value |-> None]
    ELSE [threw |-> FALSE, error |-> NonError,
          value |-> Some([data |-> B64Encode(fs[imagePath]),
                          mimeType |-> MimeTypeOfPath(imagePath)])]

----------------------------------------------------------------------------
(* Tool handlers: the CallToolRequestSchema handler *)

GENERATE == "generate_image"
EDIT == "edit_image"

GeneratePrefix == "Failed to generate image: "
EditPrefix == "Failed to edit image: "
PrefixOf(name) == IF name = GENERATE THEN GeneratePrefix ELSE EditPrefix

NoImageMessage == <<"No image was generated in the response">>
PromptRequired == <<"prompt is required and must be a string">>
SourceRequired == <<"sourceImage path is required">>
GenerateOutputRequired ==
    <<"outputPath is required - specify the absolute path where the image should be saved in the project">>
EditOutputRequired ==
    <<"outputPath is required - specify the absolute path where the edited image should be saved">>
NoArguments == <<"Cannot destructure property 'prompt' of 'args' as it is undefined.">>

\* !x || typeof x !== "string"
NotAString(x) == ~Truthy(x) \/ ~IsString(x)

NoOutcome == [kind |-> "none", message |-> <<>>, payload |-> None]
Failure(message) == [kind |-> "error", message |-> message, payload |-> None]
Success(payload) == [kind |-> "ok", message |-> <<>>, payload |-> Some(payload)]

\* An invocation: where its handler stands (idle, awaiting the provider, done),
\* the request, the handler's locals that live across the await, the provider
\* request it issued and how many, what the provider answered, the error its
\* catch block caught, and what the caller gets.
IdleSlot ==
    [pc |-> "idle", name |-> "", args |-> None,
     resolvedAspectRatio |-> Undef, resolvedResolution |-> Undef,
     request |-> None, calls |-> 0, response |-> None, cause |-> None,
     outcome |-> NoOutcome]

\* A validation of generate_image that checks the prompt only.
generateValidationPromptOnly(args) ==
    IF args = None THEN Some(NoArguments)
    ELSE IF NotAString(Get(args).prompt) THEN Some(PromptRequired)
    ELSE None

\* The checks before the try block: the error thrown, if any.
generateValidation(args) ==
    IF args = None THEN Some(NoArguments)
    ELSE IF NotAString(Get(args).prompt) THEN Some(PromptRequired)
    ELSE IF NotAString(Get(args).outputPath) THEN Some(GenerateOutputRequired)
    ELSE None

editValidation(args) ==
    IF args = None THEN Some(NoArguments)
    ELSE IF NotAString(Get(args).prompt) THEN Some(PromptRequired)
    ELSE IF NotAString(Get(args).sourceImage) THEN Some(SourceRequired)
    ELSE IF NotAString(Get(args).outputPath) THEN Some(EditOutputRequired)
    ELSE None

\* A catch block that rethrows the caught message without the prefix.
RewrappedWithoutPrefix(name, error) ==
    IF error.isError THEN error.message ELSE <<"Unknown error occurred">>

\* The catch blocks: error instanceof Error ? error.message : "Unknown error occurred",
\* rethrown under the operation's prefix.
Rewrapped(name, error) ==
    <<PrefixOf(name)>> \o (IF error.isError THEN error.message ELSE <<"Unknown error occurred">>)

InlineItem(image) == [kind |-> "inlineData", mimeType |-> image.mimeType, data |-> image.data]
TextItem(prompt) == [kind |-> "text", mimeType |-> <<>>, data |-> prompt]

RECURSIVE ReadReferencesReversed(_, _, _)
\* A loop over referenceImages that puts each image before the ones read so far.
ReadReferencesReversed(fs, ds, paths) ==
    IF paths = <<>> THEN [threw |-> FALSE, error |-> NonError, items |-> <<>>]
    ELSE LET r == readImageAsBase64(fs, ds, paths[1])
         IN  IF r.threw THEN [threw |-> TRUE, error |-> r.error, items |-> <<>>]
             ELSE LET rest == ReadReferencesReversed(fs, ds, Tail(paths))
                  IN  IF rest.threw THEN rest
                      ELSE [rest EXCEPT !.items = rest.items \o <<InlineItem(Get(r.value))>>]

RECURSIVE ReadReferences(_, _, _)
\* The loop over referenceImages: the items read so far, and the first error.
ReadReferences(fs, ds, paths) ==
    IF paths = <<>> THEN [threw |-> FALSE, error |-> NonError, items |-> <<>>]
    ELSE LET r == readImageAsBase64(fs, ds, paths[1])
         IN  IF r.threw THEN [threw |-> TRUE, error |-> r.error, items |-> <<>>]
             ELSE LET rest == ReadReferences(fs, ds, Tail(paths))
                  IN  IF rest.threw THEN rest
                      ELSE [rest EXCEPT !.items = <<InlineItem(Get(r.value))>> \o rest.items]

\* generate_image up to the await of ai.models.generateContent.
generateStart(args, fs, ds) ==
    LET a == Get(args)
        invalid == generateValidation(args)
        ratio == resolveAspectRatio(a.aspectRatio)
        size == resolveResolution(a.resolution)
        refs == IF IsSome(a.referenceImages) /\ Len(Get(a.referenceImages)) > 0
                THEN ReadReferences(fs, ds, Get(a.referenceImages))
                ELSE [threw |-> FALSE, error |-> NonError, items |-> <<>>]
        started == [IdleSlot EXCEPT !.name = GENERATE, !.args = args]
    IN  IF IsSome(invalid)
        THEN [started EXCEPT !.pc = "done", !.outcome = Failure(Get(invalid))]
        ELSE IF refs.threw
        THEN [started EXCEPT !.pc = "done",
                             !.resolvedAspectRatio = ratio, !.resolvedResolution = size,
                             !.cause = Some(refs.error),
                             !.outcome = Failure(Rewrapped(GENERATE, refs.error))]
        ELSE [started EXCEPT !.pc = "awaiting",
                             !.resolvedAspectRatio = ratio, !.resolvedResolution = size,
                             !.calls = 1,
                             !.request = Some([model |-> "gemini-3-pro-image-preview",
                                 contents |-> refs.items \o <<TextItem(a.prompt.v)>>,
                                 imageConfig |-> Some([aspectRatio |-> Some(ratio),
                                                       imageSize |-> Some(size)])])]

\* edit_image up to the await of ai.models.generateContent.
editStart(args, fs, ds) ==
    LET a == Get(args)
        invalid == editValidation(args)
        ratio == IF Truthy(a.aspectRatio) THEN resolveAspectRatio(a.aspectRatio) ELSE Undef
        size == resolveResolution(a.resolution)
        source == readImageAsBase64(fs, ds, a.sourceImage.v)
        started == [IdleSlot EXCEPT !.name = EDIT, !.args = args]
    IN  IF IsSome(invalid)
        THEN [started EXCEPT !.pc = "done", !.outcome = Failure(Get(invalid))]
        ELSE IF source.threw
        THEN [started EXCEPT !.pc = "done",
                             !.resolvedAspectRatio = ratio, !.resolvedResolution = size,
                             !.cause = Some(source.error),
                             !.outcome = Failure(Rewrapped(EDIT, source.error))]
        ELSE [started EXCEPT !.pc = "awaiting",
                             !.resolvedAspectRatio = ratio, !.resolvedResolution = size,
                             !.calls = 1,
                             !.request = Some([model |-> "gemini-3-pro-image-preview",
                                 contents |-> <<InlineItem(Get(source.value)), TextItem(a.prompt.v)>>,
                                 imageConfig |->
                                     IF Truthy(ratio) \/ Truthy(size)
                                     THEN Some([aspectRatio |-> IF Truthy(ratio) THEN Some(ratio) ELSE None,
                                                imageSize |-> IF Truthy(size) THEN Some(size) ELSE None])
                                     ELSE None])]

\* JSON.stringify of a property value: a function or undefined drops the
\* property, Object.prototype is written {}.
JsonProperty(x) ==
    CASE x.t \in {"undefined", "function"} -> None
      [] x.t = "object" -> Some(Obj(<<"{}">>))
      [] OTHER -> Some(x)

\* The success payload of a tool, as JSON.stringify writes it.
ResultPayload(slot, saved) ==
    [path |-> saved.path,
     url |-> saved.url,
     sourceImage |-> IF slot.name = EDIT THEN Some(Get(slot.args).sourceImage) ELSE None,
     aspectRatio |->
         IF slot.name = EDIT
         THEN JsonProperty(IF Truthy(slot.resolvedAspectRatio)
                           THEN slot.resolvedAspectRatio
                           ELSE Str(<<"preserved">>))
         ELSE JsonProperty(slot.resolvedAspectRatio),
     resolution |-> JsonProperty(slot.resolvedResolution)]

\* A handler that opens the destination for writing before it looks for the
\* image in the answer, leaving it empty when there is none.
afterResponseOpeningFirst(slot, fs, ds, response, fault) ==
    LET imageResult == extractImageFromResponse(response)
        answered == [slot EXCEPT !.pc = "done", !.response = Some(response)]
        noImage == Err(NoImageMessage)
        saved == saveImage(fs, ds, Get(imageResult).data, Get(slot.args).outputPath.v, fault)
    IN  IF imageResult = None
        THEN [slot |-> [answered EXCEPT !.cause = Some(noImage),
                                        !.outcome = Failure(Rewrapped(slot.name, noImage))],
              files |-> WriteFile(fs, Get(slot.args).outputPath.v, <<>>), dirs |-> ds]
        ELSE IF saved.threw
        THEN [slot |-> [answered EXCEPT !.cause = Some(saved.error),
                                        !.outcome = Failure(Rewrapped(slot.name, saved.error))],
              files |-> saved.files, dirs |-> saved.dirs]
        ELSE [slot |-> [answered EXCEPT !.outcome = Success(ResultPayload(slot, Get(saved.value)))],
              files |-> saved.files, dirs |-> saved.dirs]

\* The handler after the await, the provider having answered: the slot and the
\* file system it leaves.
afterResponse(slot, fs, ds, response, fault) ==
    LET imageResult == extractImageFromResponse(response)
        answered == [slot EXCEPT !.pc = "done", !.response = Some(response)]
        noImage == Err(NoImageMessage)
        saved == saveImage(fs, ds, Get(imageResult).data, Get(slot.args).outputPath.v, fault)
    IN  IF imageResult = None
        THEN [slot |-> [answered EXCEPT !.cause = Some(noImage),
                                        !.outcome = Failure(Rewrapped(slot.name, noImage))],
              files |-> fs, dirs |-> ds]
        ELSE IF saved.threw
        THEN [slot |-> [answered EXCEPT !.cause = Some(saved.error),
                                        !.outcome = Failure(Rewrapped(slot.name, saved.error))],
              files |-> saved.files, dirs |-> saved.dirs]
        ELSE [slot |-> [answered EXCEPT !.outcome = Success(ResultPayload(slot, Get(saved.value)))],
              files |-> saved.files, dirs |-> saved.dirs]

\* A handler that calls the provider a second time when the first call throws.
afterThrowRetrying(slot, thrown) ==
    IF slot.calls < 2
    THEN [slot EXCEPT !.calls = slot.calls + 1]
    ELSE [slot EXCEPT !.pc = "done", !.cause = Some(thrown),
                      !.outcome = Failure(Rewrapped(slot.name, thrown))]

\* The handler after the await, the provider call having thrown.
afterThrow(slot, thrown) ==
    [slot EXCEPT !.pc = "done", !.cause = Some(thrown),
                 !.outcome = Failure(Rewrapped(slot.name, thrown))]

----------------------------------------------------------------------------
(* Requests, provider answers and the initial file system of the handlers *)

OutX == <<"/","a","/","x",".","j","p","g">>
OutX2 == <<"/","c","/","x",".","p","n","g">>
RefJpg == <<"/","r","/","a",".","J","P","G">>
RefBmp == <<"/","r","/","b",".","b","m","p">>
RefMissing == <<"/","r","/","n","o","n","e",".","p","n","g">>

\* The reference and source images on disk when the server starts.
InitialFiles == [q \in {RefJpg, RefBmp} |-> IF q = RefJpg THEN <<7>> ELSE <<8, 8>>]

Args(prompt, outputPath, sourceImage, referenceImages, aspectRatio, resolution) ==
    [prompt |-> prompt, outputPath |-> outputPath, sourceImage |-> sourceImage,
     referenceImages |-> referenceImages, aspectRatio |-> aspectRatio,
     resolution |-> resolution]

ThePrompt == Str(<<"a"," ","c","a","t">>)

\* A required field: missing, empty, not a string, or a string.
PromptValues == {Undef, Str(<<>>), Num(<<"4","2">>), ThePrompt}
OutputValues == {Undef, Str(<<>>), Num(<<"7">>), Str(OutX), Str(OutX2)}
SourceValues == {Undef, Str(<<>>), Num(<<"7">>), Str(RefJpg), Str(RefBmp), Str(RefMissing)}

AllStrings(S) == \A x \in S : IsString(x) /\ Truthy(x)

MaxRefs == 2
ReferenceLists == {None} \cup {Some(l) : l \in SeqsUpTo({RefJpg, RefBmp, RefMissing}, MaxRefs)}

HandlerAspects ==
    { Undef, Str(<<>>), Str(<<"H","E","R","O">>), Str(<<"4",":","5">>),
      Str(<<"b","o","g","u","s">>), Str(<<"c","o","n","s","t","r","u","c","t","o","r">>) }
HandlerResolutions == {Undef, Str(<<"2","k">>), Str(<<"8","K">>)}

\* generate_image requests: no arguments at all, a required field that is not a
\* string, and the well-formed ones, with every list of reference images and
\* with every pair of aspect ratio and resolution.
GenerateArgs ==
    {None}
    \cup {Some(Args(t[1], t[2], Undef, None, Undef, Undef)) :
            t \in {u \in PromptValues \X OutputValues : ~AllStrings({u[1], u[2]})}}
    \cup {Some(Args(ThePrompt, o, Undef, r, Undef, Undef)) :
            o \in {x \in OutputValues : AllStrings({x})}, r \in ReferenceLists}
    \cup {Some(Args(ThePrompt, o, Undef, None, a, z)) :
            o \in {x \in OutputValues : AllStrings({x})},
            a \in HandlerAspects, z \in HandlerResolutions}

EditArgs ==
    {None}
    \cup {Some(Args(t[1], t[3], t[2], None, Undef, Undef)) :
            t \in {u \in PromptValues \X SourceValues \X OutputValues :
                     ~AllStrings({u[1], u[2], u[3]})}}
    \cup {Some(Args(ThePrompt, o, i, None, a, z)) :
            o \in {x \in OutputValues : AllStrings({x})},
            i \in {x \in SourceValues : AllStrings({x})},
            a \in HandlerAspects, z \in HandlerResolutions}

ImagePart(data, mimeType) == [inlineData |-> Some([data |-> Some(data), mimeType |-> mimeType])]

\* What the provider answers: no candidates, a first candidate without content,
\* parts or data, an image, and an image in the second candidate only.
HandlerResponses ==
    { [candidates |-> None],
      [candidates |-> Some(<<>>)],
      [candidates |-> Some(<<[content |-> None]>>)],
      [candidates |-> Some(<<[content |-> Some([parts |-> None])]>>)],
      [candidates |-> Some(<<CandidateOf(<<TextPart>>)>>)],
      [candidates |-> Some(<<CandidateOf(<<ImagePart(<<>>, Some(<<"image/png">>))>>)>>)],
      [candidates |-> Some(<<CandidateOf(<<TextPart, ImagePart(DataA, None)>>)>>)],
      [candidates |-> Some(<<CandidateOf(<<ImagePart(DataB, Some(<<"image/jpeg">>))>>)>>)],
      [candidates |-> Some(<<CandidateOf(<<TextPart>>),
                             CandidateOf(<<ImagePart(DataB, Some(<<"image/jpeg">>))>>)>>)] }

\* What a failing provider call throws.
ProviderErrors == {Err(<<"429 quota exceeded">>), NonError}

OtherTools == {"list_images"}

----------------------------------------------------------------------------
(* Spec: the tool handlers, one invocation at a time *)

Slots == {1}

Init ==
    /\ server = ServerListening
    /\ files = InitialFiles
    /\ dirs = InitialDirs \cup UNION {DirChain(dirname(q)) : q \in DOMAIN InitialFiles}
    /\ inv = [i \in Slots |-> IdleSlot]
    /\ call = NoCall

CallGenerate(i, args) ==
    /\ inv[i].pc = "idle"
    /\ inv' = [inv EXCEPT ![i] = generateStart(args, files, dirs)]
    /\ UNCHANGED <<files, dirs, call, server>>

CallEdit(i, args) ==
    /\ inv[i].pc = "idle"
    /\ inv' = [inv EXCEPT ![i] = editStart(args, files, dirs)]
    /\ UNCHANGED <<files, dirs, call, server>>

\* Any other tool name: throw new Error(`Unknown tool: ${name}`).
CallUnknownTool(i, name) ==
    /\ inv[i].pc = "idle"
    /\ inv' = [inv EXCEPT ![i] = [IdleSlot EXCEPT !.pc = "done", !.name = name,
                                                  !.outcome = Failure(<<"Unknown tool: ", name>>)]]
    /\ UNCHANGED <<files, dirs, call, server>>

\* ai.models.generateContent resolves: extraction, publish and result.
ProviderResponds(i, response, fault) ==
    /\ inv[i].pc = "awaiting"
    /\ LET r == afterResponse(inv[i], files, dirs, response, fault)
       IN  /\ inv' = [inv EXCEPT ![i] = r.slot]
           /\ files' = r.files
           /\ dirs' = r.dirs
    /\ UNCHANGED <<call, server>>

\* ai.models.generateContent rejects.
ProviderThrows(i, thrown) ==
    /\ inv[i].pc = "awaiting"
    /\ inv' = [inv EXCEPT ![i] = afterThrow(inv[i], thrown)]
    /\ UNCHANGED <<files, dirs, call, server>>

\* The result or the error has gone back to the caller.
Return(i) ==
    /\ inv[i].pc = "done"
    /\ inv' = [inv EXCEPT ![i] = IdleSlot]
    /\ UNCHANGED <<files, dirs, call, server>>

HandlerRemoveImagesDir ==
    /\ RemoveImagesDir
    /\ UNCHANGED <<inv, call, server>>

Next ==
    \/ \E i \in Slots, args \in GenerateArgs : CallGenerate(i, args)
    \/ \E i \in Slots, args \in EditArgs : CallEdit(i, args)
    \/ \E i \in Slots, name \in OtherTools : CallUnknownTool(i, name)
    \/ \E i \in Slots, response \in HandlerResponses, fault \in IoFaults :
          ProviderResponds(i, response, fault)
    \/ \E i \in Slots, thrown \in ProviderErrors : ProviderThrows(i, thrown)
    \/ \E i \in Slots : Return(i)
    \/ HandlerRemoveImagesDir

Spec == Init /\ [][Next]_vars

----------------------------------------------------------------------------
(* Claims about the tool handlers, checked under Spec *)

IsTool(slot) == slot.name \in {"generate_image", "edit_image"}

\* A field that is missing, empty or not a string.
Unusable(x) == ~(x.t = "string" /\ x.v # <<>>)

\* A required field of the request is unusable.
LacksRequiredField(slot) ==
    \/ slot.args = None
    \/ Unusable(Get(slot.args).prompt)
    \/ Unusable(Get(slot.args).outputPath)
    \/ slot.name = "edit_image" /\ Unusable(Get(slot.args).sourceImage)

\* The source image of an edit is named and is not on disk.
SourceAbsent(slot) ==
    /\ slot.name = "edit_image"
    /\ slot.args # None
    /\ ~Unusable(Get(slot.args).sourceImage)
    /\ Get(slot.args).sourceImage.v \notin DOMAIN files

\* C1: an invocation of generate_image or edit_image with a required field
\* missing, empty or not a string, or an edit whose source image is not on disk,
\* ends in an error without a provider call.
C1_InvalidRequestFailsWithoutProviderCall ==
    \A i \in DOMAIN inv :
        (inv[i].pc # "idle" /\ IsTool(inv[i]) /\ (LacksRequiredField(inv[i]) \/ SourceAbsent(inv[i])))
        => /\ inv[i].pc = "done"
           /\ inv[i].outcome.kind = "error"
           /\ inv[i].calls = 0
           /\ inv[i].request = None

\* C1 witness: an edit whose source image /r/none.png is not on disk has ended
\* in an error with no provider call.
C1_Witness ==
    \E i \in DOMAIN inv :
        /\ inv[i].pc = "done"
        /\ inv[i].name = "edit_image"
        /\ ~LacksRequiredField(inv[i])
        /\ SourceAbsent(inv[i])
        /\ inv[i].outcome.kind = "error"
        /\ inv[i].calls = 0

\* The string is a preset key in some letter casing.
IsPresetWord(w) == \E d \in DocumentedPresets : w \in Casings(d[1])

\* C5: a string that is neither a preset key nor a valid ratio resolves to 1:1,
\* so the aspect ratio generate_image hands to the provider is always one of the
\* ten valid ratio strings.
C5_GenerateHandsValidRatio ==
    \A i \in DOMAIN inv :
        (inv[i].name = "generate_image" /\ IsSome(inv[i].request))
        => LET given == Get(inv[i].args).aspectRatio
               handed == Get(Get(inv[i].request).imageConfig).aspectRatio
           IN  /\ IsSome(handed)
               /\ Get(handed).t = "string"
               /\ Get(handed).v \in TenRatios
               /\ (given.t = "string" /\ ~IsPresetWord(given.v) /\ given.v \notin TenRatios)
                    => Get(handed) = Str(<<"1",":","1">>)

\* The first candidate of the response holds no part with non-empty inline data.
NoImageIn(response) ==
    \A k \in 1..Len(PartsOfFirstCandidate(response)) :
        ~CarriesData(PartsOfFirstCandidate(response)[k])

\* C8: when the provider's response has no candidates, or a first candidate
\* without content, parts or non-empty inline data, the invocation fails with
\* "No image was generated in the response" under the operation's prefix.
C8_NoImageFailsWithFixedMessage ==
    \A i \in DOMAIN inv :
        (inv[i].pc = "done" /\ IsSome(inv[i].response) /\ NoImageIn(Get(inv[i].response)))
        => /\ inv[i].outcome.kind = "error"
           /\ inv[i].outcome.message =
                <<IF inv[i].name = "generate_image" THEN "Failed to generate image: "
                                                    ELSE "Failed to edit image: ",
                  "No image was generated in the response">>

\* C8 witness: the provider answered an edit with a first candidate that holds a
\* part whose inline data is empty, and the edit failed with the fixed message.
C8_Witness ==
    \E i \in DOMAIN inv :
        /\ inv[i].pc = "done"
        /\ inv[i].name = "edit_image"
        /\ inv[i].response =
             Some([candidates |-> Some(<<CandidateOf(<<ImagePart(<<>>, Some(<<"image/png">>))>>)>>)])
        /\ inv[i].outcome.message =
             <<"Failed to edit image: ", "No image was generated in the response">>

\* C9: a successful edit without aspectRatio reports "preserved", a successful
\* generate without aspectRatio reports 1:1, and with an aspectRatio both report
\* the value resolveAspectRatio gives for it.
C9_ReportedAspectRatio ==
    \A i \in DOMAIN inv :
        (inv[i].pc = "done" /\ IsTool(inv[i]) /\ inv[i].outcome.kind = "ok")
        => LET given == Get(inv[i].args).aspectRatio
               reported == Get(inv[i].outcome.payload).aspectRatio
           IN  /\ given.t = "undefined" =>
                    reported = Some(Str(IF inv[i].name = "edit_image"
                                        THEN <<"preserved">> ELSE <<"1",":","1">>))
               /\ (given.t = "string" /\ given.v # <<>>) =>
                    reported = Some(resolveAspectRatio(given))

ValidationMessages ==
    {NoArguments, PromptRequired, SourceRequired, GenerateOutputRequired, EditOutputRequired}

FailedTool(slot) == slot.pc = "done" /\ IsTool(slot) /\ slot.outcome.kind = "error"

\* C10 as claimed: every error of generate_image and edit_image, validation
\* errors included, is the operation's prefix followed by the underlying message.
C10_EveryErrorPrefixed ==
    \A i \in DOMAIN inv :
        FailedTool(inv[i])
        => /\ Len(inv[i].outcome.message) >= 2
           /\ inv[i].outcome.message[1] =
                (IF inv[i].name = "generate_image" THEN "Failed to generate image: "
                                                   ELSE "Failed to edit image: ")

\* C10 as amended: an error raised inside the try block (an unreadable reference
\* or source image, a provider exception, no image in the response, a failed
\* publish) is the operation's prefix followed by the caught Error's message, or
\* by "Unknown error occurred" when the caught value is not an Error; a request
\* without a usable required field fails with the bare validation message.
C10_CaughtErrorsPrefixed ==
    \A i \in DOMAIN inv :
        FailedTool(inv[i])
        => IF LacksRequiredField(inv[i])
           THEN /\ inv[i].cause = None
                /\ inv[i].outcome.message \in ValidationMessages
           ELSE /\ IsSome(inv[i].cause)
                /\ inv[i].outcome.message =
                     <<IF inv[i].name = "generate_image" THEN "Failed to generate image: "
                                                         ELSE "Failed to edit image: ">>
                     \o (IF Get(inv[i].cause).isError THEN Get(inv[i].cause).message
                         ELSE <<"Unknown error occurred">>)

\* C10 witness: the provider call of a generate_image threw "429 quota exceeded"
\* and the caller got "Failed to generate image: 429 quota exceeded".
C10_Witness ==
    \E i \in DOMAIN inv :
        /\ FailedTool(inv[i])
        /\ inv[i].name = "generate_image"
        /\ inv[i].cause = Some(Err(<<"429 quota exceeded">>))
        /\ inv[i].outcome.message = <<"Failed to generate image: ", "429 quota exceeded">>

\* The provider call of the invocation has thrown: a request was issued, no
\* response came back, and the catch block caught something.
ProviderRaised(slot) ==
    slot.pc = "done" /\ IsSome(slot.request) /\ slot.response = None /\ IsSome(slot.cause)

\* C11: an invocation calls the provider at most once; while it awaits the
\* provider it has called it exactly once, and when that call raised the
\* invocation is over with "Failed to generate image: <message>" (for an edit,
\* "Failed to edit image: <message>"), still after one provider call only.
C11_ProviderCalledAtMostOnce ==
    \A i \in DOMAIN inv :
        /\ inv[i].calls <= 1
        /\ inv[i].pc = "awaiting" => inv[i].calls = 1 /\ inv[i].cause = None
        /\ ProviderRaised(inv[i])
           => /\ inv[i].calls = 1
              /\ inv[i].outcome.kind = "error"
              /\ Get(inv[i].cause).isError
                 => inv[i].outcome.message =
                      <<IF inv[i].name = "generate_image" THEN "Failed to generate image: "
                                                          ELSE "Failed to edit image: ">>
                      \o Get(inv[i].cause).message

\* C11 witness: the provider call of an edit_image threw "429 quota exceeded";
\* the invocation is over after its one call with the edit prefix and that message.
C11_Witness ==
    \E i \in DOMAIN inv :
        /\ ProviderRaised(inv[i])
        /\ inv[i].name = "edit_image"
        /\ inv[i].calls = 1
        /\ inv[i].cause = Some(Err(<<"429 quota exceeded">>))
        /\ inv[i].outcome.message = <<"Failed to edit image: ", "429 quota exceeded">>

\* The base64 text of the reference and source images on disk.
EncodedImage(q) ==
    CASE q = <<"/","r","/","a",".","J","P","G">> -> <<"B","w","=","=">>
      [] q = <<"/","r","/","b",".","b","m","p">> -> <<"C","A","g","=">>

\* The reference images of a request: none when the field is absent.
ReferencesOf(slot) ==
    IF IsSome(Get(slot.args).referenceImages) THEN Get(Get(slot.args).referenceImages) ELSE <<>>

\* C12: the content handed to the provider by generate_image is one inline
\* image per reference image, in the caller's order, followed by exactly one
\* text item, the prompt, last (the prompt alone without reference images);
\* edit_image hands exactly the source image and then the prompt.
C12_ContentOrder ==
    \A i \in DOMAIN inv :
        IsSome(inv[i].request)
        => LET contents == Get(inv[i].request).contents
               a == Get(inv[i].args)
               images == IF inv[i].name = "generate_image" THEN ReferencesOf(inv[i])
                         ELSE <<a.sourceImage.v>>
               n == Len(images)
           IN  /\ Len(contents) = n + 1
               /\ \A k \in 1..n :
                    /\ contents[k].kind = "inlineData"
                    /\ contents[k].data = EncodedImage(images[k])
               /\ contents[n + 1].kind = "text"
               /\ contents[n + 1].data = a.prompt.v

\* C12 witness: a generate_image with the reference images b.bmp then a.JPG has
\* handed the provider b.bmp, a.JPG and the prompt, in this order.
C12_Witness ==
    \E i \in DOMAIN inv :
        /\ inv[i].name = "generate_image"
        /\ IsSome(inv[i].request)
        /\ ReferencesOf(inv[i]) = <<RefBmp, RefJpg>>
        /\ Len(Get(inv[i].request).contents) = 3
        /\ Get(inv[i].request).contents[1].data = <<"C","A","g","=">>
        /\ Get(inv[i].request).contents[2].data = <<"B","w","=","=">>
        /\ Get(inv[i].request).contents[3] = TextItem(<<"a"," ","c","a","t">>)

\* The mirror of the destinations /a/x.jpg and /c/x.png.
MirrorOfX == <<"/","p","/","i","m","a","g","e","s","/","x",".","p","n","g">>

\* The publish of the invocation wrote the primary file and failed on the mirror.
MirrorWriteFailed(slot) ==
    /\ slot.pc = "done"
    /\ IsSome(slot.response)
    /\ slot.cause = Some(Err(<<"ENOENT: no such file or directory", ", open '">>
                             \o MirrorOfX \o <<"'">>))

\* The bytes of the image in the provider's answer to the invocation.
AnsweredBytes(slot) ==
    DecodedPayload(Get(extractImageFromResponse(Get(slot.response))).data)

\* C15: the step in which a publish writes the primary file and fails on the
\* mirror ends the invocation in an error, leaves the primary file on disk with
\* the new bytes and the mirror as it was; handing the error back to the caller
\* repairs nothing.
C15_NoRollbackNoRepair ==
    [][\A i \in DOMAIN inv :
          /\ (inv[i].pc = "awaiting" /\ MirrorWriteFailed(inv'[i]))
             => LET d == Get(inv'[i].args).outputPath.v
                IN  /\ inv'[i].outcome.kind = "error"
                    /\ d \in DOMAIN files'
                    /\ files'[d] = AnsweredBytes(inv'[i])
                    /\ (MirrorOfX \in DOMAIN files') = (MirrorOfX \in DOMAIN files)
                    /\ MirrorOfX \in DOMAIN files => files'[MirrorOfX] = files[MirrorOfX]
          /\ (MirrorWriteFailed(inv[i]) /\ inv'[i].pc = "idle")
             => files' = files
      ]_vars

\* C15 witness: /a/x.jpg was published with the bytes 1 2 3, then published again
\* with the byte 255 and the mirror write failed: the invocation ended in an
\* error, /a/x.jpg holds 255 and the mirror still 1 2 3.
C15_Witness ==
    \E i \in DOMAIN inv :
        /\ MirrorWriteFailed(inv[i])
        /\ inv[i].outcome.kind = "error"
        /\ Get(inv[i].args).outputPath.v = <<"/","a","/","x",".","j","p","g">>
        /\ <<"/","a","/","x",".","j","p","g">> \in DOMAIN files
        /\ files[<<"/","a","/","x",".","j","p","g">>] = <<255>>
        /\ MirrorOfX \in DOMAIN files
        /\ files[MirrorOfX] = <<1, 2, 3>>

\* The publish of the invocation got past the primary write.
PrimaryWritten(slot) ==
    slot.pc = "done" /\ IsSome(slot.response)
    /\ (slot.outcome.kind = "ok" \/ MirrorWriteFailed(slot))

\* C16: a publish that got past the primary write has ensured the serving
\* directory exists, creating it when it had been removed, so it is there when
\* the mirror is written.
C16_ServingDirEnsured ==
    [][\A i \in DOMAIN inv :
          (inv[i].pc = "awaiting" /\ PrimaryWritten(inv'[i])) => IMAGES_DIR \in dirs'
      ]_vars

\* C17: the configuration edit_image hands to the provider carries an aspect
\* ratio exactly when the caller supplied a non-empty aspectRatio, and then one
\* of the ten ratios, 1:1 for a string that is neither a preset word nor a
\* ratio; the image size is always one of the three resolutions, 1K by default.
C17_EditConfiguration ==
    \A i \in DOMAIN inv :
        (inv[i].name = "edit_image" /\ IsSome(inv[i].request))
        => LET a == Get(inv[i].args)
               supplied == a.aspectRatio.t = "string" /\ a.aspectRatio.v # <<>>
               config == Get(inv[i].request).imageConfig
           IN  /\ IsSome(config)
               /\ IsSome(Get(config).aspectRatio) = supplied
               /\ supplied
                  => /\ Get(Get(config).aspectRatio).t = "string"
                     /\ Get(Get(config).aspectRatio).v \in TenRatios
                     /\ (a.aspectRatio.v \notin TenRatios /\ ~IsPresetWord(a.aspectRatio.v))
                        => Get(Get(config).aspectRatio).v = <<"1",":","1">>
               /\ IsSome(Get(config).imageSize)
               /\ Get(Get(config).imageSize).t = "string"
               /\ Get(Get(config).imageSize).v \in ResolutionNames
               /\ a.resolution.t = "undefined"
                  => Get(Get(config).imageSize).v = <<"1","K">>

----------------------------------------------------------------------------
(* SpecConcurrent: several invocations in flight at once.  A handler runs  *)
(* without interruption up to its await and from the provider's answer to  *)
(* its end (saveImage is synchronous), so the invocations interleave at    *)
(* the await only.  call keeps the most recent call of saveImage.          *)

NumInv == 2

ConcurrentSlots == 1..NumInv

ConcurrentGenerateArgs ==
    {Some(Args(ThePrompt, Str(o), Undef, None, Undef, Undef)) : o \in {OutX, OutX2}}

ConcurrentEditArgs ==
    {Some(Args(ThePrompt, Str(OutX), Str(RefJpg), None, Undef, Undef))}

\* The provider answers with the image 1 2 3 or with the image 255.
ConcurrentResponses ==
    { [candidates |-> Some(<<CandidateOf(<<TextPart, ImagePart(DataA, None)>>)>>)],
      [candidates |-> Some(<<CandidateOf(<<ImagePart(DataB, Some(<<"image/jpeg">>))>>)>>)] }

ConcurrentFaults == {"none", "write2"}

InitConcurrent ==
    /\ server = ServerListening
    /\ files = InitialFiles
    /\ dirs = InitialDirs \cup UNION {DirChain(dirname(q)) : q \in DOMAIN InitialFiles}
    /\ inv = [i \in ConcurrentSlots |-> IdleSlot]
    /\ call = NoCall

\* ai.models.generateContent resolves for invocation i: extraction, publish and
\* result, in one step.
ConcurrentProviderResponds(i, response, fault) ==
    /\ inv[i].pc = "awaiting"
    /\ LET r == afterResponse(inv[i], files, dirs, response, fault)
           imageResult == extractImageFromResponse(response)
           outputPath == Get(inv[i].args).outputPath.v
           saved == saveImage(files, dirs, Get(imageResult).data, outputPath, fault)
       IN  /\ inv' = [inv EXCEPT ![i] = r.slot]
           /\ files' = r.files
           /\ dirs' = r.dirs
           /\ call' = IF imageResult = None THEN call
                      ELSE [fn |-> "saveImage",
                            arg |-> [imageData |-> Get(imageResult).data,
                                     outputPath |-> outputPath],
                            ret |-> Some([threw |-> saved.threw, error |-> saved.error,
                                          value |-> saved.value])]
    /\ UNCHANGED server

NextConcurrent ==
    \/ \E i \in ConcurrentSlots, args \in ConcurrentGenerateArgs : CallGenerate(i, args)
    \/ \E i \in ConcurrentSlots, args \in ConcurrentEditArgs : CallEdit(i, args)
    \/ \E i \in ConcurrentSlots, response \in ConcurrentResponses, fault \in ConcurrentFaults :
          ConcurrentProviderResponds(i, response, fault)
    \/ \E i \in ConcurrentSlots, thrown \in ProviderErrors : ProviderThrows(i, thrown)

SpecConcurrent == InitConcurrent /\ [][NextConcurrent]_vars

\* Every invocation has completed with a result, and all of them target d.
AllPublishedTo(d) ==
    \A i \in DOMAIN inv :
        /\ inv[i].pc = "done"
        /\ inv[i].outcome.kind = "ok"
        /\ Get(inv[i].args).outputPath.v = d

\* C13: once all the concurrent invocations that target one destination have
\* completed, the destination and its mirror both hold, whole, the bytes of the
\* invocation whose publish ran last, that is the one whose provider response
\* came last, whatever the order of the requests.
C13_LastWriterWins ==
    \A d \in {<<"/","a","/","x",".","j","p","g">>, <<"/","c","/","x",".","p","n","g">>} :
        AllPublishedTo(d)
        => /\ call.fn = "saveImage"
           /\ call.arg.outputPath = d
           /\ \E i \in DOMAIN inv : AnsweredBytes(inv[i]) = DecodedPayload(call.arg.imageData)
           /\ d \in DOMAIN files
           /\ MirrorOfX \in DOMAIN files
           /\ files[d] = DecodedPayload(call.arg.imageData)
           /\ files[MirrorOfX] = DecodedPayload(call.arg.imageData)

\* C13 witness: invocation 1 (a generate_image) and invocation 2 (an edit_image)
\* both target /a/x.jpg; 1 was answered 255 and 2 was answered 1 2 3, the publish
\* of 1 ran last, and the destination and the mirror hold 255.
C13_Witness ==
    /\ AllPublishedTo(<<"/","a","/","x",".","j","p","g">>)
    /\ inv[1].name = "generate_image"
    /\ inv[2].name = "edit_image"
    /\ AnsweredBytes(inv[1]) = <<255>>
    /\ AnsweredBytes(inv[2]) = <<1, 2, 3>>
    /\ call.fn = "saveImage"
    /\ call.arg.imageData = DataB
    /\ files[<<"/","a","/","x",".","j","p","g">>] = <<255>>
    /\ files[MirrorOfX] = <<255>>

----------------------------------------------------------------------------
(* Resource handlers: the ReadResourceRequestSchema handler *)

ImageExtensions ==
    { <<"p","n","g">>, <<"j","p","g">>, <<"j","p","e","g">>, <<"g","i","f">>,
      <<"w","e","b","p">> }

\* The characters "." of a regular expression does not match.
LineTerminators == {"U+000A", "U+000D", "U+2028", "U+2029"}

\* uri.match(/^images\/(.+\.png)$/): the pattern of the first server, for png
\* only and in this letter case only.
MatchResourceUriPngOnly(uri) ==
    LET rest == SubSeq(uri, 8, Len(uri))
    IN  IF /\ Len(uri) >= 8
           /\ SubSeq(uri, 1, 7) = <<"i","m","a","g","e","s","/">>
           /\ Len(rest) > 4
           /\ SubSeq(rest, Len(rest) - 3, Len(rest)) = <<".","p","n","g">>
           /\ \A k \in 1..Len(rest) : rest[k] \notin LineTerminators
        THEN Some(rest)
        ELSE None

\* uri.match(/^images\/(.+\.(png|jpg|jpeg|gif|webp))$/i): the first group,
\* when the whole URI matches.
MatchResourceUri(uri) ==
    LET rest == SubSeq(uri, 8, Len(uri))
    IN  IF /\ Len(uri) >= 8
           /\ toLowerCase(SubSeq(uri, 1, 7)) = <<"i","m","a","g","e","s","/">>
           /\ \E e \in ImageExtensions :
                 /\ Len(rest) > Len(e) + 1
                 /\ toLowerCase(SubSeq(rest, Len(rest) - Len(e), Len(rest))) = <<".">> \o e
           /\ \A k \in 1..Len(rest) : rest[k] \notin LineTerminators
        THEN Some(rest)
        ELSE None

\* The read handler for uri on the file system (fs, ds): the path it resolves
\* and what it returns or throws.
readResource(fs, ds, uri) ==
    LET match == MatchResourceUri(uri)
        filename == Get(match)
        filePath == join(IMAGES_DIR, filename)
    IN  IF match = None
        THEN [threw |-> TRUE, error |-> Err(<<"Invalid resource URI: ">> \o uri),
              filePath |-> None, value |-> None]
        ELSE IF filePath \notin DOMAIN fs /\ filePath \notin ds
        THEN [threw |-> TRUE, error |-> Err(<<"Resource not found: ">> \o uri),
              filePath |-> Some(filePath), value |-> None]
        ELSE IF filePath \in ds
        THEN [threw |-> TRUE, error |-> Err(<<"EISDIR: illegal operation on a directory, read">>),
              filePath |-> Some(filePath), value |-> None]
        ELSE [threw |-> FALSE, error |-> NonError,
              filePath |-> Some(filePath),
              value |-> Some([uri |-> uri, mimeType |-> <<"image/png">>,
                              blob |-> B64Encode(fs[filePath])])]

\* /\.(png|jpg|jpeg|gif|webp)$/i.test(file)
HasImageExtension(file) ==
    \E e \in ImageExtensions : EndsWith(toLowerCase(file), <<".">> \o e)

\* fs.readdirSync(IMAGES_DIR): the names of the files and directories in it.
ReadImagesDir(fs, ds) ==
    {LastPortion(q) : q \in {f \in (DOMAIN fs) \cup ds : f # IMAGES_DIR /\ dirname(f) = IMAGES_DIR}}

\* The list handler on the file system (fs, ds): the resources it returns (in
\* the order of the directory, which is left open), or what it throws.
listResources(fs, ds) ==
    IF IMAGES_DIR \notin ds
    THEN [threw |-> TRUE,
          error |-> Err(<<"ENOENT: no such file or directory", ", scandir '">>
                        \o IMAGES_DIR \o <<"'">>),
          value |-> {}]
    ELSE [threw |-> FALSE, error |-> NonError,
          value |-> {[uri |-> <<"i","m","a","g","e","s","/">> \o file,
                      name |-> file,
                      mimeType |-> <<"image/png">>] :
                        file \in {f \in ReadImagesDir(fs, ds) : HasImageExtension(f)}}]

----------------------------------------------------------------------------
(* SpecResources: resource lists and reads, between publishes and removals *)
(* of files                                                                *)

ImagesPrefix == <<"i","m","a","g","e","s","/">>

\* The URIs a client asks for: image names that are and are not on disk, other
\* letter cases, names without a listed extension or without a name, other
\* shapes, a name with a line break, and names with dot segments and separators.
ResourceUris ==
    { ImagesPrefix \o <<"x",".","p","n","g">>,
      ImagesPrefix \o <<"y",".","p","n","g">>,
      ImagesPrefix \o <<"p","h","o","t","o",".","J","P","G">>,
      ImagesPrefix \o <<"x",".","j","p","e","g">>,
      ImagesPrefix \o <<"x",".","g","i","f">>,
      ImagesPrefix \o <<"x",".","w","e","b","p">>,
      <<"I","M","A","G","E","S","/">> \o <<"x",".","P","n","G">>,
      ImagesPrefix \o <<"n","o","t","e","s",".","t","x","t">>,
      ImagesPrefix \o <<"x",".","p","n","g","x">>,
      ImagesPrefix \o <<"x",".","p","n","g","/">>,
      ImagesPrefix \o <<".","p","n","g">>,
      ImagesPrefix \o <<"p","n","g">>,
      ImagesPrefix,
      <<>>,
      <<"x",".","p","n","g">>,
      <<"/">> \o ImagesPrefix \o <<"x",".","p","n","g">>,
      <<"f","i","l","e",":","/","/">> \o ImagesPrefix \o <<"x",".","p","n","g">>,
      ImagesPrefix \o <<"a","U+000A","b",".","p","n","g">>,
      ImagesPrefix \o <<"/","x",".","p","n","g">>,
      ImagesPrefix \o <<"s","u","b","/",".",".","/","x",".","p","n","g">>,
      ImagesPrefix \o <<".",".","/","i","m","a","g","e","s","/","x",".","p","n","g">>,
      ImagesPrefix \o <<".",".","/","s","e","c","r","e","t",".","p","n","g">>,
      ImagesPrefix \o <<".",".","/",".",".","/","r","/","a",".","J","P","G">>,
      ImagesPrefix \o <<".",".","/","n","o","n","e",".","p","n","g">> }

SecretPath == <<"/","p","/","s","e","c","r","e","t",".","p","n","g">>
PhotoPath == IMAGES_DIR \o <<"/","p","h","o","t","o",".","J","P","G">>
NotesPath == IMAGES_DIR \o <<"/","n","o","t","e","s",".","t","x","t">>
DotPngPath == IMAGES_DIR \o <<"/",".","p","n","g">>

\* The files on disk when the first resource is read: the reference images, an
\* image in the project root, and in the serving directory an image, a text
\* file and a file named .png put there from outside.
ResourceInitialFiles ==
    [q \in {RefJpg, RefBmp, SecretPath, PhotoPath, NotesPath, DotPngPath} |->
        CASE q = RefJpg -> <<7>>
          [] q = RefBmp -> <<8, 8>>
          [] q = SecretPath -> <<255>>
          [] q = PhotoPath -> OldBytes
          [] q = NotesPath -> <<1, 2>>
          [] q = DotPngPath -> <<8, 8>>]

InitResources ==
    /\ server = ServerListening
    /\ files = ResourceInitialFiles
    /\ dirs = InitialDirs \cup UNION {DirChain(dirname(q)) : q \in DOMAIN ResourceInitialFiles}
    /\ inv = <<>>
    /\ call = NoCall

ReadResource(uri) ==
    /\ call' = [fn |-> "readResource", arg |-> uri,
                ret |-> Some(readResource(files, dirs, uri))]
    /\ UNCHANGED <<files, dirs, inv, server>>

\* A tool invocation publishes an image, saveImage succeeding.
ResourcePublish(imageData, outputPath) ==
    LET saved == saveImage(files, dirs, imageData, outputPath, "none")
    IN  /\ ~saved.threw
        /\ files' = saved.files
        /\ dirs' = saved.dirs
        /\ call' = [fn |-> "saveImage",
                    arg |-> [imageData |-> imageData, outputPath |-> outputPath],
                    ret |-> Some([threw |-> saved.threw, error |-> saved.error,
                                  value |-> saved.value])]
        /\ UNCHANGED <<inv, server>>

ListResources ==
    /\ call' = [fn |-> "listResources", arg |-> Undef,
                ret |-> Some(listResources(files, dirs))]
    /\ UNCHANGED <<files, dirs, inv, server>>

\* A file of the serving directory is deleted from outside.
ResourceRemoveFile(q) ==
    /\ q \in DOMAIN files
    /\ dirname(q) = IMAGES_DIR
    /\ files' = [f \in DOMAIN files \ {q} |-> files[f]]
    /\ UNCHANGED <<dirs, inv, call, server>>

NextResources ==
    \/ ListResources
    \/ \E uri \in ResourceUris : ReadResource(uri)
    \/ \E d \in Payloads, o \in {OutX, OutX2} : ResourcePublish(d, o)
    \/ \E q \in {MirrorPath(<<"x">>), PhotoPath} : ResourceRemoveFile(q)

SpecResources == InitResources /\ [][NextResources]_vars

\* A URI of the form images/<name>.<ext>: the prefix images/, a name of one
\* character or more without a line break, a dot and one of the five
\* extensions, letters in either case.
IsImageUri(uri) ==
    /\ Len(uri) > 7
    /\ toLowerCase(SubSeq(uri, 1, 7)) = <<"i","m","a","g","e","s","/">>
    /\ \E ext \in { <<"p","n","g">>, <<"j","p","g">>, <<"j","p","e","g">>, <<"g","i","f">>,
                    <<"w","e","b","p">> } :
          \E n \in 1..(Len(uri) - 7) :
             /\ Len(uri) = 7 + n + 1 + Len(ext)
             /\ \A k \in 8..(7 + n) : uri[k] \notin {"U+000A", "U+000D", "U+2028", "U+2029"}
             /\ uri[8 + n] = "."
             /\ toLowerCase(SubSeq(uri, 9 + n, Len(uri))) = ext

\* The file a URI of that form names: <name>.<ext> under the serving directory.
NamedFile(uri) == join(IMAGES_DIR, SubSeq(uri, 8, Len(uri)))

\* The base64 text of the contents files have in SpecResources.
EncodedBytes(b) ==
    CASE b = <<1, 2, 3>> -> <<"A","Q","I","D">>
      [] b = <<255>> -> <<"/","w","=","=">>
      [] b = <<1, 2>> -> <<"A","Q","I","=">>
      [] b = <<9, 9>> -> <<"C","Q","k","=">>
      [] b = <<7>> -> <<"B","w","=","=">>
      [] b = <<8, 8>> -> <<"C","A","g","=">>

InsideServingDir(q) ==
    /\ Len(q) > Len(IMAGES_DIR) + 1
    /\ SubSeq(q, 1, Len(IMAGES_DIR) + 1) = IMAGES_DIR \o <<"/">>

\* C20: a read that returns bytes has read a file inside the serving directory,
\* whatever dot segments the URI's name contains.
C20_ReadStaysInsideServingDir ==
    (call.fn = "readResource" /\ IsSome(call.ret) /\ ~Get(call.ret).threw)
    => /\ IsSome(Get(call.ret).filePath)
       /\ InsideServingDir(Get(Get(call.ret).filePath))

----------------------------------------------------------------------------
(* SpecServer: the start-up of the static content server, and the publishes *)
(* that follow it                                                           *)

\* How many ports from PORT upwards other processes may hold.
MaxBusy == 3

\* app.listen(port) succeeds: the listening callback runs.
Listening ==
    /\ server.state = "binding"
    /\ server.port \notin server.inUse
    /\ server' = [server EXCEPT !.state = "listening"]
    /\ UNCHANGED <<files, dirs, inv, call>>

\* An error handler that tries the port after the next one.
AddressInUseSkippingAPort ==
    /\ server.state = "binding"
    /\ server.port \in server.inUse
    /\ server' = startExpressServer(server, server.port + 2)
    /\ UNCHANGED <<files, dirs, inv, call>>

\* The error event with code EADDRINUSE: startExpressServer(port + 1).
AddressInUse ==
    /\ server.state = "binding"
    /\ server.port \in server.inUse
    /\ server' = startExpressServer(server, server.port + 1)
    /\ UNCHANGED <<files, dirs, inv, call>>

\* The error event with another code (EACCES, ...): logged, nothing else.
OtherListenError ==
    /\ server.state = "binding"
    /\ server' = [server EXCEPT !.state = "failed"]
    /\ UNCHANGED <<files, dirs, inv, call>>

\* saveImage called by a tool handler once the start-up has settled.
ServerPublish(imageData, outputPath) ==
    /\ server.state # "binding"
    /\ LET saved == saveImage(files, dirs, imageData, outputPath, "none")
       IN  /\ files' = saved.files
           /\ dirs' = saved.dirs
           /\ call' = [fn |-> "saveImage",
                       arg |-> [imageData |-> imageData, outputPath |-> outputPath],
                       ret |-> Some([threw |-> saved.threw, error |-> saved.error,
                                     value |-> saved.value])]
    /\ UNCHANGED <<inv, server>>

InitServer ==
    /\ files = <<>>
    /\ dirs = InitialDirs
    /\ inv = <<>>
    /\ call = NoCall
    /\ \E busy \in SUBSET (PORT..(PORT + MaxBusy - 1)) :
          server = startExpressServer([state |-> "stopped", port |-> PORT, attempts |-> <<>>,
                                       inUse |-> busy], PORT)

NextServer ==
    \/ Listening
    \/ AddressInUse
    \/ OtherListenError
    \/ \E d \in {DataA, DataB}, o \in {OutX, OutX2} : ServerPublish(d, o)

SpecServer == InitServer /\ [][NextServer]_vars

\* The first port from PORT upwards that no other process holds.
FirstFreePort ==
    CHOOSE p \in 3001..(3001 + MaxBusy) :
        p \notin server.inUse /\ \A q \in 3001..(p - 1) : q \in server.inUse

\* C18: the ports are tried from P upwards one by one, each new attempt made
\* after a bind conflict on the port before it; the server listens on the first
\* free port P+k only, having tried exactly P..P+k; while it is binding the
\* next event can come (the listening event on a free port, the retry on a port
\* in use); after another listen error nothing more is tried.
C18_RetryOnNextPort ==
    /\ Len(server.attempts) >= 1
    /\ server.port = server.attempts[Len(server.attempts)]
    /\ \A k \in 1..Len(server.attempts) : server.attempts[k] = 3001 + k - 1
    /\ \A k \in 1..(Len(server.attempts) - 1) : server.attempts[k] \in server.inUse
    /\ server.state = "listening"
       => /\ server.port = FirstFreePort
          /\ Len(server.attempts) = FirstFreePort - 3001 + 1
    /\ (server.state = "binding" /\ server.port \notin server.inUse) => ENABLED Listening
    /\ (server.state = "binding" /\ server.port \in server.inUse) => ENABLED AddressInUse
    /\ server.state \in {"listening", "failed"}
       => ~ENABLED (Listening \/ AddressInUse \/ OtherListenError)

\* C18 witness: 3001 and 3002 are in use and 3003 is free; the server listens
\* on 3003 after trying 3001, 3002, 3003.
C18_Witness ==
    /\ server.inUse = {3001, 3002}
    /\ server.state = "listening"
    /\ server.port = 3003
    /\ server.attempts = <<3001, 3002, 3003>>

\* C19: the url a publish returns names the port the static server listens on,
\* also after bind-conflict retries, and the path of the mirror under /images/.
C19_UrlNamesListeningPort ==
    (/\ server.state = "listening"
     /\ call.fn = "saveImage" /\ IsSome(call.ret) /\ ~Get(call.ret).threw)
    => LET saved == Get(Get(call.ret).value)
       IN  /\ saved.url.host = "localhost"
           /\ saved.url.port = server.port
           /\ saved.url.path = <<"/images/">> \o saved.id \o <<".","p","n","g">>

\* The read of uri in the state a step leads to has returned bytes as image/png.
ReadsAfterStep(uri, bytes) ==
    LET r == readResource(files', dirs', uri)
    IN  /\ ~r.threw
        /\ r.value = Some([uri |-> uri, mimeType |-> <<"image/png">>, blob |-> EncodedBytes(bytes)])

\* C21: every URI a listing returns is images/<entry> for an entry of the
\* serving directory, and a read of it, the file still being there, is accepted
\* and returns that file's bytes; and right after a successful publish with id i
\* the listing contains images/{i}.png and a read of it returns the published
\* bytes.
C21_ListAndReadAgree ==
    [][/\ (call' # call /\ call'.fn = "listResources")
          => /\ ~Get(call'.ret).threw
             /\ \A res \in Get(call'.ret).value :
                   /\ res.uri = <<"i","m","a","g","e","s","/">> \o res.name
                   /\ (IMAGES_DIR \o <<"/">> \o res.name) \in DOMAIN files'
                   /\ ReadsAfterStep(res.uri, files'[IMAGES_DIR \o <<"/">> \o res.name])
       /\ (/\ call'.fn = "saveImage"
           /\ call' # call \/ (files' # files /\ DOMAIN files \subseteq DOMAIN files')
           /\ ~Get(call'.ret).threw)
          => LET i == Get(Get(call'.ret).value).id
                 uri == <<"i","m","a","g","e","s","/">> \o i \o <<".","p","n","g">>
             IN  /\ \E res \in listResources(files', dirs').value : res.uri = uri
                 /\ ReadsAfterStep(uri, DecodedPayload(call'.arg.imageData))
      ]_vars

\* The invocation has failed before its publish step: on its validation, on an
\* unreadable reference or source image, on an unknown tool name, on a provider
\* exception (no answer at all), or on an answer without image.
FailedBeforePublish(slot) ==
    /\ slot.pc = "done"
    /\ slot.outcome.kind = "error"
    /\ slot.response = None \/ NoImageIn(Get(slot.response))

\* C22: the step in which a generate_image or edit_image fails before its
\* publish, or a call names an unknown tool, changes no file and no directory:
\* the destination and the files of the serving directory are as they were.
C22_FailureBeforePublishChangesNothing ==
    [][\A i \in DOMAIN inv :
          (inv[i].pc # "done" /\ FailedBeforePublish(inv'[i]))
          => /\ files' = files
             /\ dirs' = dirs
      ]_vars

\* C22 witness: /a/x.jpg and its mirror hold 1 2 3 from an earlier publish, and
\* a generate_image for /a/x.jpg has failed on an answer without image.
C22_Witness ==
    \E i \in DOMAIN inv :
        /\ FailedBeforePublish(inv[i])
        /\ inv[i].name = "generate_image"
        /\ IsSome(inv[i].response)
        /\ Get(inv[i].args).outputPath.v = <<"/","a","/","x",".","j","p","g">>
        /\ <<"/","a","/","x",".","j","p","g">> \in DOMAIN files
        /\ MirrorOfX \in DOMAIN files
        /\ files[<<"/","a","/","x",".","j","p","g">>] = <<1, 2, 3>>
        /\ files[MirrorOfX] = <<1, 2, 3>>

----------------------------------------------------------------------------
(* SpecRepublish: publishes one after the other, to destinations that do   *)
(* and do not derive the same id                                           *)

OutSpaced == <<"/","a","/","m","y"," ","f","i","l","e","!",".","p","n","g">>
OutUnderscored == <<"/","b","/","m","y","_","f","i","l","e","_",".","w","e","b","p">>
OutY == <<"/","a","/","y",".","p","n","g">>

\* /a/x.jpg and /c/x.png derive x, the next two derive my_file_, the last one y.
RepublishPaths == {OutX, OutX2, OutSpaced, OutUnderscored, OutY}

InitRepublish ==
    /\ server = ServerListening
    /\ files = <<>>
    /\ dirs = InitialDirs
    /\ inv = <<>>
    /\ call = NoCall

\* saveImage called by a tool handler, the mirror write failing or not.
Republish(imageData, outputPath, fault) ==
    /\ LET saved == saveImage(files, dirs, imageData, outputPath, fault)
       IN  /\ files' = saved.files
           /\ dirs' = saved.dirs
           /\ call' = [fn |-> "saveImage",
                       arg |-> [imageData |-> imageData, outputPath |-> outputPath],
                       ret |-> Some([threw |-> saved.threw, error |-> saved.error,
                                     value |-> saved.value])]
    /\ UNCHANGED <<inv, server>>

NextRepublish ==
    \E d \in {DataA, DataB}, o \in RepublishPaths, fault \in {"none", "write2"} :
        Republish(d, o, fault)

SpecRepublish == InitRepublish /\ [][NextRepublish]_vars

\* The id each destination derives.
DerivedId(o) ==
    CASE o = <<"/","a","/","x",".","j","p","g">> -> <<"x">>
      [] o = <<"/","c","/","x",".","p","n","g">> -> <<"x">>
      [] o = <<"/","a","/","m","y"," ","f","i","l","e","!",".","p","n","g">>
           -> <<"m","y","_","f","i","l","e","_">>
      [] o = <<"/","b","/","m","y","_","f","i","l","e","_",".","w","e","b","p">>
           -> <<"m","y","_","f","i","l","e","_">>
      [] o = <<"/","a","/","y",".","p","n","g">> -> <<"y">>

MirrorOfId(i) == <<"/","p","/","i","m","a","g","e","s","/">> \o i \o <<".","p","n","g">>

\* The mirror of id i is after the step what it was before it.
MirrorUntouched(i) ==
    /\ (MirrorOfId(i) \in DOMAIN files') = (MirrorOfId(i) \in DOMAIN files)
    /\ MirrorOfId(i) \in DOMAIN files => files'[MirrorOfId(i)] = files[MirrorOfId(i)]

\* C23: a successful publish leaves the mirror of the id its destination
\* derives with the published bytes and every other mirror as it was, and a
\* failed one changes no mirror; so after any sequence of publishes each mirror
\* holds the bytes of the most recent successful publish deriving its id, the
\* destinations /a/x.jpg and /c/x.png (and "my file!.png" and my_file_.webp)
\* sharing one mirror.
C23_MirrorHoldsLatestPublish ==
    [][(call'.fn = "saveImage" /\ (call' # call \/ files' # files))
       => LET o == call'.arg.outputPath
              r == Get(call'.ret)
              ids == {DerivedId(q) : q \in RepublishPaths}
          IN  IF r.threw
              THEN \A j \in ids : MirrorUntouched(j)
              ELSE /\ Get(r.value).id = DerivedId(o)
                   /\ MirrorOfId(DerivedId(o)) \in DOMAIN files'
                   /\ files'[MirrorOfId(DerivedId(o))] = DecodedPayload(call'.arg.imageData)
                   /\ \A j \in ids \ {DerivedId(o)} : MirrorUntouched(j)
      ]_vars

\* C23 witness: /a/x.jpg was published with 1 2 3 and then /c/x.png with 255:
\* the shared mirror x.png holds 255 and is no longer identical to /a/x.jpg;
\* likewise "my file!.png" (255) and my_file_.webp (1 2 3, the later one).
C23_Witness ==
    /\ call.fn = "saveImage"
    /\ {OutX, OutX2, OutSpaced, OutUnderscored, MirrorOfId(<<"x">>),
        MirrorOfId(<<"m","y","_","f","i","l","e","_">>)} \subseteq DOMAIN files
    /\ files[OutX] = <<1, 2, 3>>
    /\ files[OutX2] = <<255>>
    /\ files[MirrorOfId(<<"x">>)] = <<255>>
    /\ files[OutSpaced] = <<255>>
    /\ files[OutUnderscored] = <<1, 2, 3>>
    /\ files[MirrorOfId(<<"m","y","_","f","i","l","e","_">>)] = <<1, 2, 3>>
    /\ MirrorOfId(<<"y">>) \notin DOMAIN files

====
